---- MODULE Spec2Model ----
(***************************************************************************)
(* The editing core of pepper: BufferView / BufferViewCollection           *)
(* (src/src/buffer_view.rs) over BufferContent, Cursor, CursorCollection   *)
(* and the edit history.                                                   *)
(*                                                                         *)
(* Text is modelled byte by byte.  A line is a sequence of bytes; the      *)
(* two-byte character "ç" is the lead byte "c3" followed by the            *)
(* continuation byte "a7", so a column is a byte offset and a character    *)
(* boundary is an offset that is not followed by a continuation byte.      *)
(* Rust indices start at 0, TLA+ sequences at 1: line l is content[l+1].   *)
(***************************************************************************)
EXTENDS Integers, Sequences, FiniteSets, TLC

VARIABLES
    buffer_views,   \* BufferViewCollection.buffer_views : Vec<Option<BufferView>>
    buffers,        \* BufferCollection : handle -> buffer (content + history)
    aborted,        \* TRUE once an operation has panicked (index out of bounds, ...)
    op,             \* the operation performed last (see Op)
    recorded,       \* the number of edits made through the entry points so far
    scope,          \* which specification runs; it selects the input sets, never changes
    command,        \* the command line parsed last and the outcome of CommandManager::parse
    editor,         \* Editor: buffered keys, event queue, mode (see NewEditor)
    lsp,            \* LspPlugin: client entries, recipes (see DefaultLspPlugin)
    server,         \* Server: connected clients and what on_event returned (see NewServer)
    client_application  \* Client: read_buf, stdout and its connection (see NewClient)

vars == <<buffer_views, buffers, aborted, op, recorded, scope, command, editor, lsp,
          server, client_application>>

----------------------------------------------------------------------------
(* Bounds of the model *)

MaxSlots == 2
MaxBuffers == 2
MaxLines == 2
MaxLineLen == 2
MaxEdits == 1
MaxCount == 2
MaxPieces == 5

\* usize, the type of the counts and of line_index, as a narrow machine word:
\* its largest value is a count the movements are called with
UsizeBits == 3
UsizeMax == 2 ^ UsizeBits - 1

----------------------------------------------------------------------------
(* Bytes, characters and word kinds *)

NL == "nl"
Continuation == {"a7"}

IsIdentifierByte(b) == b \in {"a", "c3", "a7"}
IsWhitespaceByte(b) == b = " "

KindOf(b) ==
    IF IsIdentifierByte(b) THEN "Identifier"
    ELSE IF IsWhitespaceByte(b) THEN "Whitespace"
    ELSE "Symbol"

Min(a, b) == IF a <= b THEN a ELSE b
Max(a, b) == IF a >= b THEN a ELSE b

\* str.is_char_boundary(col)
IsCharBoundary(line, col) ==
    /\ col >= 0
    /\ col <= Len(line)
    /\ (col < Len(line) => line[col + 1] \notin Continuation)

\* the byte offsets at which the characters of line[from..] start (char_indices)
CharStarts(line, from) ==
    {i \in from .. Len(line) - 1 : line[i + 1] \notin Continuation}

----------------------------------------------------------------------------
(* BufferPosition and BufferRange *)

Pos(l, c) == [line_index |-> l, column_byte_index |-> c]
Origin == Pos(0, 0)

PosLess(a, b) ==
    \/ a.line_index < b.line_index
    \/ a.line_index = b.line_index /\ a.column_byte_index < b.column_byte_index

PosLeq(a, b) == a = b \/ PosLess(a, b)

PosMax(a, b) == IF PosLess(a, b) THEN b ELSE a

Rng(f, t) == [from |-> f, to |-> t]

DefaultRange == Rng(Origin, Origin)

\* BufferRange::between(a, b): the ordered pair
Between(a, b) == IF PosLeq(a, b) THEN Rng(a, b) ELSE Rng(b, a)

\* BufferPosition::insert(range): a position at or after range.from moves
\* forward by the inserted span
PositionInsert(p, range) ==
    IF PosLess(p, range.from) THEN p
    ELSE IF p.line_index = range.from.line_index
    THEN Pos(range.to.line_index,
             range.to.column_byte_index
                 + (p.column_byte_index - range.from.column_byte_index))
    ELSE Pos(p.line_index + (range.to.line_index - range.from.line_index),
             p.column_byte_index)

\* BufferPosition::delete(range): inside the range collapses to range.from,
\* after it moves back by the deleted span, before it stays
PositionDelete(p, range) ==
    IF PosLeq(p, range.from) THEN p
    ELSE IF PosLeq(p, range.to) THEN range.from
    ELSE IF p.line_index = range.to.line_index
    THEN Pos(range.from.line_index,
             range.from.column_byte_index
                 + (p.column_byte_index - range.to.column_byte_index))
    ELSE Pos(p.line_index - (range.to.line_index - range.from.line_index),
             p.column_byte_index)

----------------------------------------------------------------------------
(* Cursor *)

Cur(a, p) == [anchor |-> a, position |-> p]

DefaultCursor == Cur(Origin, Origin)

CursorAsRange(c) == Between(c.anchor, c.position)

CursorInsert(c, range) ==
    Cur(PositionInsert(c.anchor, range), PositionInsert(c.position, range))

CursorDelete(c, range) ==
    Cur(PositionDelete(c.anchor, range), PositionDelete(c.position, range))

\* the total order of cursors: by position, then by anchor
CursorLess(c, d) ==
    \/ PosLess(c.position, d.position)
    \/ c.position = d.position /\ PosLess(c.anchor, d.anchor)

SeqRange(s) == {s[i] : i \in 1 .. Len(s)}

RECURSIVE SortedCursors(_)
SortedCursors(S) ==
    IF S = {} THEN <<>>
    ELSE LET m == CHOOSE c \in S : \A d \in S : d = c \/ CursorLess(c, d)
         IN  <<m>> \o SortedCursors(S \ {m})

\* release of the CursorCollection mutation guard: sort, merge duplicates;
\* a collection left empty gets the default cursor back
SortAndMerge(cursors) ==
    IF cursors = <<>> THEN <<DefaultCursor>>
    ELSE SortedCursors(SeqRange(cursors))

IsNormalized(cursors) ==
    /\ Len(cursors) >= 1
    /\ \A i \in 1 .. Len(cursors) - 1 : CursorLess(cursors[i], cursors[i + 1])

----------------------------------------------------------------------------
(* BufferContent: a non-empty sequence of lines *)

LineCount(content) == Len(content)

LineLen(content, l) == Len(content[l + 1])

LastPosition(content) ==
    Pos(LineCount(content) - 1, LineLen(content, LineCount(content) - 1))

IsValidPosition(content, p) ==
    /\ p.line_index >= 0
    /\ p.line_index < LineCount(content)
    /\ p.column_byte_index >= 0
    /\ p.column_byte_index <= LineLen(content, p.line_index)

IsBoundaryPosition(content, p) ==
    /\ IsValidPosition(content, p)
    /\ IsCharBoundary(content[p.line_index + 1], p.column_byte_index)

\* BufferContent::saturate_position
SaturatePosition(content, p) ==
    LET l == Min(p.line_index, LineCount(content) - 1)
    IN  Pos(l, Min(p.column_byte_index, LineLen(content, l)))

RECURSIVE SplitLines(_)
\* the lines of a text: split at every newline byte
SplitLines(text) ==
    IF \A i \in 1 .. Len(text) : text[i] # NL THEN <<text>>
    ELSE LET k == CHOOSE i \in 1 .. Len(text) :
                      text[i] = NL /\ \A j \in 1 .. i - 1 : text[j] # NL
         IN  <<SubSeq(text, 1, k - 1)>> \o SplitLines(SubSeq(text, k + 1, Len(text)))

\* the range a text inserted at p occupies
InsertedRange(p, text) ==
    LET ls == SplitLines(text)
    IN  IF Len(ls) = 1
        THEN Rng(p, Pos(p.line_index, p.column_byte_index + Len(text)))
        ELSE Rng(p, Pos(p.line_index + Len(ls) - 1, Len(ls[Len(ls)])))

\* BufferContent::insert_text(p, text): the new content (p is valid)
ContentInsert(content, p, text) ==
    LET ls == SplitLines(text)
        l == p.line_index + 1
        pre == SubSeq(content[l], 1, p.column_byte_index)
        post == SubSeq(content[l], p.column_byte_index + 1, Len(content[l]))
        mid == IF Len(ls) = 1 THEN <<pre \o ls[1] \o post>>
               ELSE <<pre \o ls[1]>> \o SubSeq(ls, 2, Len(ls) - 1)
                    \o <<ls[Len(ls)] \o post>>
    IN  SubSeq(content, 1, l - 1) \o mid \o SubSeq(content, l + 1, Len(content))

\* the range clamped to the content, as delete_range does before using it
SaturateRange(content, range) ==
    Between(SaturatePosition(content, range.from), SaturatePosition(content, range.to))

\* BufferContent::delete_range(range): the new content
ContentDelete(content, range) ==
    LET r == SaturateRange(content, range)
        fl == r.from.line_index + 1
        tl == r.to.line_index + 1
        pre == SubSeq(content[fl], 1, r.from.column_byte_index)
        post == SubSeq(content[tl], r.to.column_byte_index + 1, Len(content[tl]))
    IN  SubSeq(content, 1, fl - 1) \o <<pre \o post>>
        \o SubSeq(content, tl + 1, Len(content))

RECURSIVE JoinLines(_)
JoinLines(ls) ==
    IF Len(ls) = 1 THEN ls[1]
    ELSE ls[1] \o <<NL>> \o JoinLines(Tail(ls))

\* the text a range covers (what delete_range removes and the history keeps)
TextInRange(content, range) ==
    LET r == SaturateRange(content, range)
        fl == r.from.line_index + 1
        tl == r.to.line_index + 1
    IN  IF fl = tl
        THEN SubSeq(content[fl], r.from.column_byte_index + 1, r.to.column_byte_index)
        ELSE JoinLines(
                 <<SubSeq(content[fl], r.from.column_byte_index + 1, Len(content[fl]))>>
                 \o SubSeq(content, fl + 1, tl - 1)
                 \o <<SubSeq(content[tl], 1, r.to.column_byte_index)>>)

----------------------------------------------------------------------------
(* Words: BufferContent::word_at *)

Word(k, p, n) == [kind |-> k, position |-> p, len |-> n]

\* the n-th (from 0) smallest / largest element of a set of offsets
NthUp(S, n) == CHOOSE i \in S : Cardinality({j \in S : j < i}) = n
NthDown(S, n) == CHOOSE i \in S : Cardinality({j \in S : j > i}) = n

\* the first and the last byte (from 1) of the run of one kind around byte idx
RunStart(line, idx) ==
    CHOOSE i \in 1 .. idx :
        /\ \A j \in i .. idx : KindOf(line[j]) = KindOf(line[idx])
        /\ (i > 1 => KindOf(line[i - 1]) # KindOf(line[idx]))

RunEnd(line, idx) ==
    CHOOSE i \in idx .. Len(line) :
        /\ \A j \in idx .. i : KindOf(line[j]) = KindOf(line[idx])
        /\ (i < Len(line) => KindOf(line[i + 1]) # KindOf(line[idx]))

WordIn(line, l, idx) ==
    Word(KindOf(line[idx]), Pos(l, RunStart(line, idx) - 1),
         RunEnd(line, idx) - RunStart(line, idx) + 1)

\* the run of bytes of one kind around byte index col of line l (the last
\* byte's run when col is the end of the line); an empty line has one empty
\* whitespace word
WordAt(content, p) ==
    IF Len(content[p.line_index + 1]) = 0
    THEN Word("Whitespace", Pos(p.line_index, 0), 0)
    ELSE WordIn(content[p.line_index + 1], p.line_index,
                Min(p.column_byte_index, Len(content[p.line_index + 1]) - 1) + 1)

WordStarts(line) ==
    {i \in 1 .. Len(line) : i = 1 \/ KindOf(line[i - 1]) # KindOf(line[i])}

\* the words of line l in order: its maximal runs of bytes of one kind
LineWords(content, l) ==
    [k \in 1 .. Cardinality(WordStarts(content[l + 1])) |->
        WordAt(content, Pos(l, NthUp(WordStarts(content[l + 1]), k - 1) - 1))]

IndexOfWord(ws, word) ==
    IF ws = <<>> THEN 0 ELSE CHOOSE i \in 1 .. Len(ws) : ws[i] = word

WordsAround(ws, word, k) ==
    [word |-> word,
     left |-> [i \in 1 .. Max(k - 1, 0) |-> ws[k - i]],
     right |-> [i \in 1 .. Len(ws) - k |-> ws[k + i]]]

WordsOf(ws, word) == WordsAround(ws, word, IndexOfWord(ws, word))

\* BufferContent::words_from(p): the word at p, the words to its left
\* (nearest first) and the words to its right
WordsFrom(content, p) == WordsOf(LineWords(content, p.line_index), WordAt(content, p))

RECURSIVE NonWhitespace(_)
\* filter(|w| w.kind != WordKind::Whitespace)
NonWhitespace(ws) ==
    IF ws = <<>> THEN <<>>
    ELSE IF ws[1].kind = "Whitespace" THEN NonWhitespace(Tail(ws))
    ELSE <<ws[1]>> \o NonWhitespace(Tail(ws))

----------------------------------------------------------------------------
(* Buffer: content plus edit history.  The history is a sequence of groups  *)
(* of edits; index groups are applied, the last one is open until          *)
(* commit_edits closes it.                                                 *)

Edit(k, r, t, ci) == [kind |-> k, range |-> r, text |-> t, cursor_index |-> ci]

NoBuffer ==
    [live |-> FALSE, path |-> 0 - 1, content |-> <<>>, groups |-> <<>>,
     index |-> 0, open |-> FALSE]

NewBuffer(path, content) ==
    [live |-> TRUE, path |-> path, content |-> content, groups |-> <<>>,
     index |-> 0, open |-> FALSE]

BufferHandles == 0 .. MaxBuffers - 1

RECURSIVE SumLen(_)
SumLen(groups) ==
    IF groups = <<>> THEN 0 ELSE Len(groups[1]) + SumLen(Tail(groups))

\* the edits the history would hold after n more are added
EditCountAfter(b, n) == SumLen(SubSeq(b.groups, 1, b.index)) + n

\* History::add_edit: drops the redo tail, appends to the open group
HistoryAdd(b, e) ==
    LET base == SubSeq(b.groups, 1, b.index)
        gs == IF b.open /\ base # <<>>
              THEN [base EXCEPT ![Len(base)] = Append(@, e)]
              ELSE Append(base, <<e>>)
    IN  [b EXCEPT !.groups = gs, !.index = Len(gs), !.open = TRUE]

\* Buffer::insert_text: the content changes and the edit is recorded
BufferInsertText(b, p, text, ci) ==
    IF text = <<>> THEN b
    ELSE HistoryAdd([b EXCEPT !.content = ContentInsert(b.content, p, text)],
                    Edit("Insert", InsertedRange(p, text), text, ci))

\* Buffer::delete_range: the content changes and the edit is recorded
BufferDeleteRange(b, range, ci) ==
    LET r == SaturateRange(b.content, range)
    IN  IF r.from = r.to THEN b
        ELSE HistoryAdd([b EXCEPT !.content = ContentDelete(b.content, r)],
                        Edit("Delete", r, TextInRange(b.content, r), ci))

\* the positions insert_text and delete_range accept without panicking
CanInsertAt(b, p) == IsBoundaryPosition(b.content, p)

CanDelete(b, range) ==
    LET r == SaturateRange(b.content, range)
    IN  /\ range.from.line_index >= 0
        /\ range.from.column_byte_index >= 0
        /\ IsBoundaryPosition(b.content, r.from)
        /\ IsBoundaryPosition(b.content, r.to)

Flip(e) == [e EXCEPT !.kind = IF e.kind = "Insert" THEN "Delete" ELSE "Insert"]

Reverse(s) == [i \in 1 .. Len(s) |-> s[Len(s) + 1 - i]]

\* History::undo_edits / redo_edits: the edits to replay, in replay order
UndoEdits(b) ==
    IF b.index = 0 THEN <<>>
    ELSE LET g == Reverse(b.groups[b.index])
         IN  [i \in 1 .. Len(g) |-> Flip(g[i])]

RedoEdits(b) ==
    IF b.index = Len(b.groups) THEN <<>> ELSE b.groups[b.index + 1]

RECURSIVE ApplyHistoryEdits(_, _)
ApplyHistoryEdits(content, edits) ==
    IF edits = <<>> THEN content
    ELSE LET e == edits[1]
             c == IF e.kind = "Insert"
                  THEN ContentInsert(content, e.range.from, e.text)
                  ELSE ContentDelete(content, e.range)
         IN  ApplyHistoryEdits(c, Tail(edits))

\* Buffer::undo / Buffer::redo: the buffer after the replay
BufferUndo(b) ==
    [b EXCEPT !.content = ApplyHistoryEdits(b.content, UndoEdits(b)),
              !.index = IF b.index = 0 THEN 0 ELSE b.index - 1,
              !.open = FALSE]

BufferRedo(b) ==
    [b EXCEPT !.content = ApplyHistoryEdits(b.content, RedoEdits(b)),
              !.index = IF b.index = Len(b.groups) THEN b.index ELSE b.index + 1,
              !.open = FALSE]

\* the sizes a text is kept within: a batch of edits at several cursors
\* needs room for one copy of the text per cursor
LineLimit == IF scope \in {"batch", "pair"} THEN MaxLines + 1 ELSE MaxLines

LineLenLimit == IF scope \in {"batch", "pair"} THEN MaxLineLen + 3 ELSE MaxLineLen

\* the edits one behaviour makes through the entry points
EditLimit == IF scope = "pair" THEN MaxEdits + 1 ELSE MaxEdits

\* the model keeps contents within LineLimit x LineLenLimit
FitsBounds(content) ==
    /\ Len(content) <= LineLimit
    /\ \A i \in 1 .. Len(content) : Len(content[i]) <= LineLenLimit

----------------------------------------------------------------------------
(* BufferView and the registry BufferViewCollection *)

NoView == [target_client |-> 0 - 1, buffer_handle |-> 0 - 1, cursors |-> <<>>]

\* a view whose cursor collection starts empty
NewViewNoCursor(client, bh) ==
    [target_client |-> client, buffer_handle |-> bh, cursors |-> <<>>]

\* BufferView::new: CursorCollection::new() holds the main cursor at (0,0)
NewView(client, bh) ==
    [target_client |-> client, buffer_handle |-> bh, cursors |-> <<DefaultCursor>>]

Clients == {0, 1}

\* handle h designates slot h + 1 of the vector
InRange(views, h) == h >= 0 /\ h < Len(views)

IsLive(views, h) == InRange(views, h) /\ views[h + 1] # NoView

LiveHandles(views) == {h \in 0 .. Len(views) - 1 : views[h + 1] # NoView}

VacantSlots(views) == {i \in 1 .. Len(views) : views[i] = NoView}

\* the handle BufferViewCollection::add returns
AddHandle(views) ==
    IF VacantSlots(views) # {}
    THEN (CHOOSE i \in VacantSlots(views) : \A j \in VacantSlots(views) : i <= j) - 1
    ELSE Len(views)

\* an add that never reuses a slot
AddViewAtEnd(views, v) == Append(views, v)

\* BufferViewCollection::add
AddView(views, v) ==
    IF VacantSlots(views) # {}
    THEN [views EXCEPT ![AddHandle(views) + 1] = v]
    ELSE Append(views, v)

\* the predicates the callers of remove_where pass: the views of a buffer
\* (close), every view (close_all), the views of a client
Matches(pred, v) ==
    CASE pred.by = "buffer" -> v.buffer_handle = pred.value
      [] pred.by = "client" -> v.target_client = pred.value
      [] OTHER -> TRUE

Predicates ==
    {[by |-> "buffer", value |-> b] : b \in BufferHandles}
    \cup {[by |-> "client", value |-> c] : c \in Clients}
    \cup {[by |-> "all", value |-> 0]}

\* BufferViewCollection::remove_where, the views
RemoveViews(views, pred) ==
    [i \in 1 .. Len(views) |->
        IF views[i] # NoView /\ Matches(pred, views[i]) THEN NoView ELSE views[i]]

\* a remove_where that leaves the buffers alone
KeepBuffers(bufs, views) == bufs

\* BufferViewCollection::remove_where, the buffers no remaining view references
RemoveBuffers(bufs, views) ==
    [h \in BufferHandles |->
        IF \E i \in 1 .. Len(views) :
               views[i] # NoView /\ views[i].buffer_handle = h
        THEN bufs[h] ELSE NoBuffer]

----------------------------------------------------------------------------
(* Cursor fixups *)

\* a fix_buffer_cursors whose closure is cursor.insert for every entry point
ApplyOpInsertOnly(kind, c, range) == CursorInsert(c, range)

\* the op closures the entry points hand to fix_buffer_cursors
ApplyOp(kind, c, range) ==
    CASE kind = "insert" -> CursorInsert(c, range)
      [] kind = "delete" -> CursorDelete(c, range)
      [] OTHER -> \* apply_completion: an inverted range tags a deletion
            IF PosLeq(range.from, range.to) THEN CursorInsert(c, range)
            ELSE CursorDelete(c, Rng(range.to, range.from))

RECURSIVE FixCursor(_, _, _)
\* for range in ranges.iter() { op(c, *range) }
FixCursor(kind, c, ranges) ==
    IF ranges = <<>> THEN c
    ELSE FixCursor(kind, ApplyOp(kind, c, ranges[1]), Tail(ranges))

\* one view's cursors changed under its mutation guard
GuardedMap(cursors, F(_)) ==
    SortAndMerge([i \in 1 .. Len(cursors) |-> F(cursors[i])])

\* a fixup that stops after the first view of the buffer
FixFirstViewOnly(views, bh, kind, ranges) ==
    [i \in 1 .. Len(views) |->
        IF /\ views[i] # NoView /\ views[i].buffer_handle = bh
           /\ \A j \in 1 .. i - 1 : views[j] = NoView \/ views[j].buffer_handle # bh
        THEN LET F(c) == FixCursor(kind, c, ranges)
             IN  [views[i] EXCEPT !.cursors = GuardedMap(@, F)]
        ELSE views[i]]

\* BufferViewCollection::fix_buffer_cursors
FixBufferCursors(views, bh, kind, ranges) ==
    [i \in 1 .. Len(views) |->
        IF views[i] # NoView /\ views[i].buffer_handle = bh
        THEN LET F(c) == FixCursor(kind, c, ranges)
             IN  [views[i] EXCEPT !.cursors = GuardedMap(@, F)]
        ELSE views[i]]

----------------------------------------------------------------------------
(* The edit loops over the issuing view's cursors, last cursor first.      *)
(* Each yields the buffer after the edits, the ranges pushed to            *)
(* fix_cursor_ranges in order, and whether an edit panicked.               *)

EditResult(b, rs, ok) == [buffer |-> b, ranges |-> rs, ok |-> ok]

RECURSIVE InsertAtCursorsUnrecorded(_, _, _, _)
\* the loop without fix_cursor_ranges.push(range)
InsertAtCursorsUnrecorded(b, cursors, k, text) ==
    IF k = 0 THEN EditResult(b, <<>>, TRUE)
    ELSE IF ~CanInsertAt(b, cursors[k].position) THEN EditResult(b, <<>>, FALSE)
    ELSE InsertAtCursorsUnrecorded(
             BufferInsertText(b, cursors[k].position, text, k - 1), cursors, k - 1, text)

RECURSIVE InsertAtCursorsForward(_, _, _, _)
\* the loop without .rev(): first cursor first, each at its original position
InsertAtCursorsForward(b, cursors, k, text) ==
    IF k = 0 THEN EditResult(b, <<>>, TRUE)
    ELSE LET i == Len(cursors) + 1 - k
             p == cursors[i].position
         IN  IF ~CanInsertAt(b, p) THEN EditResult(b, <<>>, FALSE)
             ELSE LET rest == InsertAtCursorsForward(BufferInsertText(b, p, text, i - 1),
                                                     cursors, k - 1, text)
                  IN  EditResult(rest.buffer,
                                 <<InsertedRange(p, text)>> \o rest.ranges, rest.ok)

RECURSIVE InsertAtCursors(_, _, _, _)
\* for (i, cursor) in cursors.iter().enumerate().rev(): insert_text at cursor.position
InsertAtCursors(b, cursors, k, text) ==
    IF k = 0 THEN EditResult(b, <<>>, TRUE)
    ELSE LET p == cursors[k].position
         IN  IF ~CanInsertAt(b, p) THEN EditResult(b, <<>>, FALSE)
             ELSE LET rest == InsertAtCursors(BufferInsertText(b, p, text, k - 1),
                                              cursors, k - 1, text)
                  IN  EditResult(rest.buffer,
                                 <<InsertedRange(p, text)>> \o rest.ranges, rest.ok)

RECURSIVE DeleteAtCursors(_, _, _)
\* for (i, cursor) in cursors.iter().enumerate().rev(): delete_range(cursor.as_range())
DeleteAtCursors(b, cursors, k) ==
    IF k = 0 THEN EditResult(b, <<>>, TRUE)
    ELSE LET r == CursorAsRange(cursors[k])
         IN  IF ~CanDelete(b, r) THEN EditResult(b, <<>>, FALSE)
             ELSE LET rest == DeleteAtCursors(BufferDeleteRange(b, r, k - 1),
                                              cursors, k - 1)
                  IN  EditResult(rest.buffer, <<r>> \o rest.ranges, rest.ok)

\* one cursor of apply_completion: the word before the cursor is replaced
\* when it is an identifier, and the net range is pushed
CompleteAtCursor(b, cursor, i, completion) ==
    LET wp == Pos(cursor.position.line_index,
                  Max(cursor.position.column_byte_index - 1, 0))
        valid == cursor.position.line_index < LineCount(b.content)
        word == WordAt(b.content, wp)
        del == Between(word.position, cursor.position)
        b1 == IF word.kind = "Identifier" THEN BufferDeleteRange(b, del, i) ELSE b
        ok == /\ (word.kind = "Identifier" => CanDelete(b, del))
              /\ CanInsertAt(b1, word.position)
        ins == InsertedRange(word.position, completion)
        range == IF PosLess(ins.to, cursor.position)
                 THEN Rng(cursor.position, ins.to)
                 ELSE Between(cursor.position, ins.to)
    IN  IF ~valid THEN EditResult(b, <<>>, FALSE)
        ELSE IF ~ok THEN EditResult(b, <<>>, FALSE)
        ELSE EditResult(BufferInsertText(b1, word.position, completion, i),
                        <<range>>, TRUE)

RECURSIVE CompleteAtCursors(_, _, _, _)
CompleteAtCursors(b, cursors, k, completion) ==
    IF k = 0 THEN EditResult(b, <<>>, TRUE)
    ELSE LET one == CompleteAtCursor(b, cursors[k], k - 1, completion)
         IN  IF ~one.ok THEN one
             ELSE LET rest == CompleteAtCursors(one.buffer, cursors, k - 1, completion)
                  IN  EditResult(rest.buffer, one.ranges \o rest.ranges, rest.ok)

----------------------------------------------------------------------------
(* Undo / redo replay: BufferViewCollection::apply_edits *)

\* the index enumerate() gives slot i after flatten(): the number of
\* occupied slots before it
FlatIndex(views, i) == Cardinality({j \in 1 .. i - 1 : views[j] # NoView})

\* the views whose cursors one replayed edit fixes up
\*   for (i, view) in self.buffer_views.iter_mut().flatten().enumerate()
\*       if i != handle.0 && view.buffer_handle == buffer_handle
IsFixedOnReplay(views, i, handle, bh) ==
    /\ views[i] # NoView
    /\ FlatIndex(views, i) # handle
    /\ views[i].buffer_handle = bh

ReplayOnViews(views, handle, bh, e) ==
    [i \in 1 .. Len(views) |->
        IF IsFixedOnReplay(views, i, handle, bh)
        THEN LET F(c) == IF e.kind = "Insert" THEN CursorInsert(c, e.range)
                         ELSE CursorDelete(c, e.range)
             IN  [views[i] EXCEPT !.cursors = GuardedMap(@, F)]
        ELSE views[i]]

\* fix_cursor_ranges[cursor_index].from = ..., after resize(cursor_index + 1, default)
SetFrom(fix, ci, p) ==
    LET grown == IF ci >= Len(fix)
                 THEN fix \o [k \in 1 .. ci + 1 - Len(fix) |-> DefaultRange]
                 ELSE fix
    IN  [grown EXCEPT ![ci + 1].from = p]

RECURSIVE ReplayEdits(_, _, _, _, _)
\* the loop over the edits: the views and fix_cursor_ranges after it
ReplayEdits(views, fix, handle, bh, edits) ==
    IF edits = <<>> THEN [views |-> views, fix |-> fix]
    ELSE LET e == edits[1]
             p == IF e.kind = "Insert" THEN e.range.to ELSE e.range.from
         IN  ReplayEdits(ReplayOnViews(views, handle, bh, e),
                         SetFrom(fix, e.cursor_index, p), handle, bh, Tail(edits))

\* a rebuild whose guard does not normalize on release
RebuildUnsorted(fix) == [k \in 1 .. Len(fix) |-> Cur(fix[k].from, fix[k].from)]

\* the issuing view's cursors rebuilt from fix_cursor_ranges
RebuildCursors(fix) ==
    SortAndMerge([k \in 1 .. Len(fix) |-> Cur(fix[k].from, fix[k].from)])

\* an apply_edits without the is_empty() test: the cursors are cleared and
\* rebuilt whatever was replayed
ApplyEditsAlwaysRebuild(views, handle, edits) ==
    LET bh == views[handle + 1].buffer_handle
        r == ReplayEdits(views, <<>>, handle, bh, edits)
    IN  [r.views EXCEPT ![handle + 1].cursors = RebuildCursors(r.fix)]

\* BufferViewCollection::apply_edits (handle designates a live view)
ApplyEdits(views, handle, edits) ==
    LET bh == views[handle + 1].buffer_handle
        r == ReplayEdits(views, <<>>, handle, bh, edits)
    IN  IF r.fix = <<>> THEN r.views
        ELSE [r.views EXCEPT ![handle + 1].cursors = RebuildCursors(r.fix)]

----------------------------------------------------------------------------
(* BufferView::move_cursors: where one cursor's position goes.  PanicPos   *)
(* stands for a panic (line_at past the last line, a slice that is out of  *)
(* range or not on a character boundary).                                  *)

PanicPos == Pos(0 - 1, 0 - 1)

\* line_at(p.line_index) exists and line[p.column_byte_index..] is a slice
CanSlice(content, p) == IsBoundaryPosition(content, p)

RECURSIVE ForwardLoop(_, _, _)
\* the loop of ColumnsForward: l is the line reached, n the steps left after
\* stepping onto the next line
ForwardLoop(content, l, n) ==
    IF l = LineCount(content) - 1 THEN Pos(l, LineLen(content, l))
    ELSE LET line == content[l + 2]
             cs == CharStarts(line, 0)
             k == Cardinality(cs)
         IN  IF n < k THEN Pos(l + 1, NthUp(cs, n))
             ELSE IF n = k THEN Pos(l + 1, Len(line))
             ELSE ForwardLoop(content, l + 1, n - k - 1)

\* a ColumnsForward that stops at the end of the cursor's line
ColumnsForwardNoWrap(content, p, n) ==
    IF ~CanSlice(content, p) THEN PanicPos
    ELSE IF n < Cardinality(CharStarts(content[p.line_index + 1], p.column_byte_index))
    THEN Pos(p.line_index,
             NthUp(CharStarts(content[p.line_index + 1], p.column_byte_index), n))
    ELSE Pos(p.line_index, Len(content[p.line_index + 1]))

ColumnsForward(content, p, n) ==
    IF ~CanSlice(content, p) THEN PanicPos
    ELSE LET line == content[p.line_index + 1]
             cs == CharStarts(line, p.column_byte_index)
             k == Cardinality(cs)
         IN  IF n < k THEN Pos(p.line_index, NthUp(cs, n))
             ELSE IF n = k THEN Pos(p.line_index, Len(line))
             ELSE ForwardLoop(content, p.line_index, n - k - 1)

RECURSIVE BackwardLoop(_, _, _)
\* the loop of ColumnsBackward
BackwardLoop(content, l, n) ==
    IF l = 0 THEN Pos(0, 0)
    ELSE LET line == content[l]
             cs == CharStarts(line, 0)
             k == Cardinality(cs)
         IN  IF n < k THEN Pos(l - 1, NthDown(cs, n))
             ELSE IF n = k
             THEN IF l - 1 = 0 THEN Pos(0, 0)
                  ELSE Pos(l - 2, LineLen(content, l - 2))
             ELSE BackwardLoop(content, l - 1, n - k - 1)

\* a ColumnsBackward that stops at column 0 of the cursor's line
ColumnsBackwardNoWrap(content, p, n) ==
    IF ~CanSlice(content, p) THEN PanicPos
    ELSE IF n - 1 < Cardinality({i \in CharStarts(content[p.line_index + 1], 0) :
                                    i < p.column_byte_index})
    THEN Pos(p.line_index,
             NthDown({i \in CharStarts(content[p.line_index + 1], 0) :
                         i < p.column_byte_index}, n - 1))
    ELSE Pos(p.line_index, 0)

\* ColumnsBackward(n) for n >= 1 (n = 0 returns before the loop)
ColumnsBackward(content, p, n) ==
    IF ~CanSlice(content, p) THEN PanicPos
    ELSE LET line == content[p.line_index + 1]
             cs == {i \in CharStarts(line, 0) : i < p.column_byte_index}
             k == Cardinality(cs)
             m == n - 1
         IN  IF m < k THEN Pos(p.line_index, NthDown(cs, m))
             ELSE IF m = k
             THEN IF p.line_index = 0 THEN Pos(0, 0)
                  ELSE Pos(p.line_index - 1, LineLen(content, p.line_index - 1))
             ELSE BackwardLoop(content, p.line_index, m - k - 1)

\* c.position.line_index + n, an unchecked usize addition
LineSumOverflows(p, n) == p.line_index + n > UsizeMax

WrappingAdd(a, b) == (a + b) % (UsizeMax + 1)

\* the sum wraps in a build without overflow checks
LinesForward(content, p, n) ==
    SaturatePosition(content,
        Pos(Min(Max(LineCount(content) - 1, 0), WrappingAdd(p.line_index, n)),
            p.column_byte_index))

LinesBackward(content, p, n) ==
    SaturatePosition(content, Pos(Max(p.line_index - n, 0), p.column_byte_index))

RECURSIVE WordsForwardLoop(_, _, _)

\* the word under the cursor counts as a step unless it is whitespace
CountsForward(w) == w.word.kind # "Whitespace"

\* words forward that stops at the end of the cursor's line
ForwardRestNoWrap(content, p, m, right) ==
    IF m < Len(right) THEN right[m + 1].position
    ELSE Pos(p.line_index, LineLen(content, p.line_index))

\* m steps over the words right of the cursor, then the end of the line,
\* then the next line
ForwardRest(content, p, m, right) ==
    IF m < Len(right) THEN right[m + 1].position
    ELSE IF m = Len(right) \/ p.line_index = LineCount(content) - 1
    THEN Pos(p.line_index, LineLen(content, p.line_index))
    ELSE WordsForwardLoop(content, Pos(p.line_index + 1, 0), m - Len(right) - 1)

ForwardFrom(content, p, n, w) ==
    IF CountsForward(w) /\ n = 0 THEN w.word.position
    ELSE ForwardRest(content, p, IF CountsForward(w) THEN n - 1 ELSE n,
                     NonWhitespace(w.right))

WordsForwardLoop(content, p, n) ==
    IF p.line_index >= LineCount(content) THEN PanicPos
    ELSE ForwardFrom(content, p, n, WordsFrom(content, p))

\* WordsForward(n) for n >= 1
WordsForward(content, p, n) == WordsForwardLoop(content, p, n)

RECURSIVE WordsBackwardLoop(_, _, _)

\* the word under the cursor counts as a step when the cursor is inside it
CountsBackward(p, w) ==
    /\ w.word.kind # "Whitespace"
    /\ p.column_byte_index # w.word.position.column_byte_index

\* m steps over the words left of the cursor, then the end of the previous line
BackwardRest(content, p, m, left) ==
    IF m < Len(left) THEN left[m + 1].position
    ELSE IF m = Len(left)
    THEN IF p.line_index > 0
         THEN Pos(p.line_index - 1, LineLen(content, p.line_index - 1))
         ELSE p
    ELSE IF p.line_index = 0 THEN Pos(0, 0)
    ELSE WordsBackwardLoop(content,
             Pos(p.line_index - 1, LineLen(content, p.line_index - 1)),
             m - Len(left) - 1)

BackwardFrom(content, p, n, w) ==
    IF CountsBackward(p, w) /\ n = 0 THEN w.word.position
    ELSE BackwardRest(content, p, IF CountsBackward(p, w) THEN n - 1 ELSE n,
                      NonWhitespace(w.left))

WordsBackwardLoop(content, p, n) ==
    IF p.line_index >= LineCount(content) THEN PanicPos
    ELSE BackwardFrom(content, p, n, WordsFrom(content, p))

\* WordsBackward(n) for n >= 1
WordsBackward(content, p, n) == WordsBackwardLoop(content, p, n - 1)

MoveHome(content, p) == Pos(p.line_index, 0)

MoveEnd(content, p) ==
    IF p.line_index >= LineCount(content) THEN PanicPos
    ELSE Pos(p.line_index, LineLen(content, p.line_index))

MoveFirstLine(content, p) == SaturatePosition(content, Pos(0, p.column_byte_index))

MoveLastLine(content, p) ==
    SaturatePosition(content, Pos(LineCount(content) - 1, p.column_byte_index))

Movements ==
    {"ColumnsForward", "ColumnsBackward", "LinesForward", "LinesBackward",
     "WordsForward", "WordsBackward", "Home", "End", "FirstLine", "LastLine"}

\* WordsForward does not check its count
ReturnsEarlyBackwardOnly(m, n) ==
    m \in {"ColumnsBackward", "WordsBackward"} /\ n = 0

\* the movements that return before the match arm's loop when the count is 0
ReturnsEarly(m, n) ==
    m \in {"ColumnsBackward", "WordsForward", "WordsBackward"} /\ n = 0

\* the match on the movement, for one cursor position
MovePosition(content, p, m, n) ==
    CASE m = "ColumnsForward" -> ColumnsForward(content, p, n)
      [] m = "ColumnsBackward" -> ColumnsBackward(content, p, n)
      [] m = "LinesForward" -> LinesForward(content, p, n)
      [] m = "LinesBackward" -> LinesBackward(content, p, n)
      [] m = "WordsForward" -> WordsForward(content, p, n)
      [] m = "WordsBackward" -> WordsBackward(content, p, n)
      [] m = "Home" -> MoveHome(content, p)
      [] m = "End" -> MoveEnd(content, p)
      [] m = "FirstLine" -> MoveFirstLine(content, p)
      [] OTHER -> MoveLastLine(content, p)

\* a movement that always drags the anchor
MovedWithAnchor(c, kind, p) == Cur(p, p)

\* one cursor after the movement and the anchor update
Moved(c, kind, p) == Cur(IF kind = "PositionAndAnchor" THEN p ELSE c.anchor, p)

MoveCursor(content, c, m, n, kind) ==
    Moved(c, kind, MovePosition(content, c.position, m, n))

\* the cursors after move_cursors on a view whose buffer exists
MovedCursors(content, cursors, m, n, kind) ==
    IF ReturnsEarly(m, n) THEN SortAndMerge(cursors)
    ELSE LET F(c) == MoveCursor(content, c, m, n, kind)
         IN  GuardedMap(cursors, F)

MovePanics(content, cursors, m, n) ==
    /\ ~ReturnsEarly(m, n)
    /\ \E i \in 1 .. Len(cursors) :
           MovePosition(content, cursors[i].position, m, n) = PanicPos

\* LinesForward adds past usize for some cursor
LinesOverflow(cursors, m, n) ==
    /\ m = "LinesForward"
    /\ \E i \in 1 .. Len(cursors) : LineSumOverflows(cursors[i].position, n)

\* overflow checks on or off: both builds when the sum overflows
OverflowChecks(cursors, m, n) ==
    IF LinesOverflow(cursors, m, n) THEN BOOLEAN ELSE {FALSE}

----------------------------------------------------------------------------
(* Inputs.  Spec runs every operation from construction on small texts;    *)
(* SpecEdit runs the edit entry points, undo and redo on registries with    *)
(* several views of one buffer; SpecMove runs move_cursors on one view.     *)

Handles == 0 .. MaxSlots

CursorIndices == IF scope = "edit" THEN {0, 1} ELSE {0}

Counts == IF scope = "move" THEN 0 .. MaxCount \cup {UsizeMax} ELSE {0, 1}

Counted == {"ColumnsForward", "ColumnsBackward", "LinesForward", "LinesBackward",
            "WordsForward", "WordsBackward"}

MovementKinds ==
    IF scope = "move" THEN {"PositionAndAnchor", "PositionOnly"} ELSE {"PositionAndAnchor"}

MovementsIn ==
    CASE scope = "move" -> Movements
      [] scope = "edit" -> {"ColumnsBackward", "Home"}
      [] OTHER -> {"ColumnsForward", "ColumnsBackward"}

Texts ==
    CASE scope = "edit" -> {<<"a">>, <<NL>>, <<"c3", "a7">>}
      [] scope \in {"batch", "pair"} -> {<<".">>, <<NL>>, <<".", NL, ".">>}
      [] OTHER -> {<<"a">>}

Completions == IF scope \in {"edit", "batch"} THEN {<<"a">>, <<"a", "a">>} ELSE {<<"a">>}

\* what a file read gives buffer_view_handle_from_path
FileContents == {<< <<"a">> >>}

Paths == BufferHandles

Positions(content) ==
    {p \in {Pos(l, c) : l \in 0 .. Len(content) - 1, c \in 0 .. LineLenLimit} :
        IsBoundaryPosition(content, p)}

Ranges(content) ==
    {r \in {Rng(a, b) : a, b \in Positions(content)} : PosLeq(r.from, r.to)}

----------------------------------------------------------------------------
(* CommandManager::parse: the tokens of a command line, the command, the   *)
(* bang and the arguments.  A text is a sequence of bytes, a token is the  *)
(* slice text[from .. to) and rest is the offset at which the iterator     *)
(* goes on; error_index(text, token) is the token's from.                  *)

\* fn is_separator
IsSeparator(b) == b \in {" ", "=", "!", "\"", "'"}

Quotes == {"\"", "'"}

\* the offset at which text[i ..].trim_start() begins
TrimStart(text, i) ==
    CHOOSE j \in i .. Len(text) :
        /\ \A k \in i + 1 .. j : text[k] = " "
        /\ (j < Len(text) => text[j + 1] # " ")

\* rest.find(is_separator) from offset i, the end of the text when None
FindSeparator(text, i) ==
    CHOOSE j \in i .. Len(text) :
        /\ \A k \in i + 1 .. j : ~IsSeparator(text[k])
        /\ (j < Len(text) => IsSeparator(text[j + 1]))

\* rest.find(delim) from offset i
HasDelim(text, i, d) == \E k \in i + 1 .. Len(text) : text[k] = d

FindDelim(text, i, d) ==
    CHOOSE j \in i .. Len(text) - 1 :
        /\ text[j + 1] = d
        /\ \A k \in i + 1 .. j : text[k] # d

Token(kind, from, to, rest) == [kind |-> kind, from |-> from, to |-> to, rest |-> rest]

\* TokenIterator::next with the first byte at offset i; a quoted token
\* begins after its opening quote, a flag after its dash
TokenAt(text, i) ==
    CASE text[i + 1] = "-" ->
             Token("Flag", i + 1, FindSeparator(text, i + 1), FindSeparator(text, i + 1))
      [] text[i + 1] \in Quotes ->
             IF HasDelim(text, i + 1, text[i + 1])
             THEN Token("Text", i + 1, FindDelim(text, i + 1, text[i + 1]),
                        FindDelim(text, i + 1, text[i + 1]) + 1)
             ELSE Token("Unterminated", i + 1, Len(text), Len(text))
      [] text[i + 1] = "=" -> Token("Equals", i, i + 1, i + 1)
      [] text[i + 1] = "!" -> Token("Bang", i, i + 1, i + 1)
      [] OTHER -> Token("Text", i, FindSeparator(text, i), FindSeparator(text, i))

\* TokenIterator::next from offset i; kind "None" at the end of the text,
\* with from the offset of the trimmed rest
NextToken(text, i) ==
    IF TrimStart(text, i) = Len(text)
    THEN Token("None", Len(text), Len(text), Len(text))
    ELSE TokenAt(text, TrimStart(text, i))

TokenText(text, t) == SubSeq(text, t.from + 1, t.to)

\* CommandArgs after clear()
NoArgs == [values |-> <<>>, switches |-> <<>>, options |-> <<>>]

\* Err(error(index)) and Ok((command, bang)), with parsed_args as the call leaves it
Failed(error, index, args) ==
    [error |-> error, index |-> index, bang |-> FALSE, args |-> args]

Parsed(bang, args) == [error |-> "", index |-> 0 - 1, bang |-> bang, args |-> args]

\* no command line was parsed yet
NoResult == Failed("none", 0 - 1, NoArgs)

\* the names and aliases of the registered commands
CommandNames == {<<"c">>}

RECURSIVE ParseArgs(_, _, _, _)

\* the token after "-flag=": the option's value
ParseOptionValue(text, t, u, v, bang, args) ==
    CASE v.kind = "Text" ->
             ParseArgs(text, v.rest, bang,
                       [args EXCEPT !.options =
                            Append(@, <<TokenText(text, t), TokenText(text, v)>>)])
      [] v.kind = "Unterminated" -> Failed("UnterminatedArgument", v.from, args)
      [] v.kind = "None" -> Failed("InvalidOptionValue", u.from, args)
      [] OTHER -> Failed("InvalidOptionValue", v.from, args)

\* a flag t and the token u peeked after it: an option when u is "="
ParseFlag(text, t, u, bang, args) ==
    IF u.kind = "Equals"
    THEN ParseOptionValue(text, t, u, NextToken(text, u.rest), bang, args)
    ELSE ParseArgs(text, t.rest, bang,
                   [args EXCEPT !.switches = Append(@, TokenText(text, t))])

\* one round of the loop over the tokens after the command, on token t
ParseToken(text, t, bang, args) ==
    CASE t.kind = "Text" ->
             ParseArgs(text, t.rest, bang,
                       [args EXCEPT !.values = Append(@, TokenText(text, t))])
      [] t.kind = "Flag" -> ParseFlag(text, t, NextToken(text, t.rest), bang, args)
      [] t.kind \in {"Equals", "Bang"} -> Failed("InvalidSwitchOrOption", t.from, args)
      [] t.kind = "Unterminated" -> Failed("UnterminatedArgument", t.from - 1, args)
      [] OTHER -> Parsed(bang, args)

ParseArgs(text, pos, bang, args) == ParseToken(text, NextToken(text, pos), bang, args)

\* the token u peeked after the command t: a bang is consumed
ParseBang(text, t, u) ==
    IF u.kind = "Bang" THEN ParseArgs(text, u.rest, TRUE, NoArgs)
    ELSE ParseArgs(text, t.rest, FALSE, NoArgs)

\* the first token names the command
ParseCommandName(text, t) ==
    IF t.kind = "Text"
    THEN IF TokenText(text, t) \in CommandNames
         THEN ParseBang(text, t, NextToken(text, t.rest))
         ELSE Failed("CommandNotFound", t.from, NoArgs)
    ELSE Failed("InvalidCommandName", t.from, NoArgs)

\* CommandManager::parse
Parse(text) == ParseCommandName(text, NextToken(text, 0))

\* the command line given to parse last and what parse made of it
NoCommand == [text |-> <<>>, result |-> NoResult]

----------------------------------------------------------------------------
(* Editor: the buffered keys and the editor event queue                    *)
(* (pepper/src/editor.rs).  Mode::on_keys, the key maps and the key parser  *)
(* are collaborators: what they return is an input of the operations.      *)

Keys == {"a", "b"}

\* an item of KeyParser that is no key
KeyError == "error"

EditorEvents == {"BufferInsertText", "FixCursors"}

\* Editor::new: no buffered keys, an empty event queue, the default mode.
\* enqueued and dispatched hold the events that the operation performed last
\* enqueued and handed to the handlers; parsed is what BufferedKeys::parse
\* returned last and flow what execute_keys returned last
NewEditor ==
    [buffered_keys |-> <<>>, events |-> <<>>, mode |-> "Normal",
     recording_macro |-> FALSE, register |-> <<>>,
     parsed |-> [ok |-> FALSE, index |-> 0], flow |-> "Continue",
     enqueued |-> <<>>, dispatched |-> <<>>]

RECURSIVE ParseLoopKeepsKeys(_, _, _)
\* a parse that returns at the error and leaves the keys pushed before it
ParseLoopKeepsKeys(keys, index, items) ==
    IF items = <<>> THEN [keys |-> keys, ok |-> TRUE, index |-> index]
    ELSE IF items[1] = KeyError
    THEN [keys |-> keys, ok |-> FALSE, index |-> index]
    ELSE ParseLoopKeepsKeys(Append(keys, items[1]), index, Tail(items))

RECURSIVE ParseLoop(_, _, _)
\* the loop of BufferedKeys::parse over the parser's items: a key is
\* pushed, an error truncates to the length at entry and returns
ParseLoop(keys, index, items) ==
    IF items = <<>> THEN [keys |-> keys, ok |-> TRUE, index |-> index]
    ELSE IF items[1] = KeyError
    THEN [keys |-> SubSeq(keys, 1, index), ok |-> FALSE, index |-> index]
    ELSE ParseLoop(Append(keys, items[1]), index, Tail(items))

\* BufferedKeys::parse
BufferedKeysParse(keys, items) == ParseLoop(keys, Len(keys), items)

\* EditorContext::trigger_event_handlers: flip and dispatch until the queue
\* is empty
TriggerEventHandlers(ed) ==
    [ed EXCEPT !.dispatched = @ \o ed.events, !.events = <<>>]

\* the keys recorded into the macro register after an on_keys that continued
RecordMacro(ed, from, to) ==
    IF ed.recording_macro
    THEN [ed EXCEPT !.register = @ \o SubSeq(ed.buffered_keys, from + 1, to)]
    ELSE ed

\* Mode::on_keys took o.consumed keys (as far as there are) and enqueued
\* o.events
AfterOnKeys(ed, o) ==
    [ed EXCEPT !.events = @ \o o.events, !.enqueued = @ \o o.events]

\* the flow that is no Continue: enter_mode(default) and truncate
Leave(ed, start_index, flow) ==
    [ed EXCEPT !.mode = "Normal",
               !.buffered_keys = SubSeq(@, 1, start_index),
               !.flow = flow]

RECURSIVE ExecuteLoop(_, _, _, _)
\* the loop of execute_keys: index is keys.index, outcomes what the calls of
\* Mode::on_keys do, in order
ExecuteLoop(ed, index, start_index, outcomes) ==
    IF index = Len(ed.buffered_keys)
    THEN [ed EXCEPT !.buffered_keys = SubSeq(@, 1, start_index), !.flow = "Continue"]
    ELSE LET o == outcomes[1]
             next == Min(index + o.consumed, Len(ed.buffered_keys))
             after == AfterOnKeys(ed, o)
         IN  CASE o.ret = "None" -> [after EXCEPT !.flow = "Continue"]
               [] o.ret = "Continue" ->
                      ExecuteLoop(TriggerEventHandlers(RecordMacro(after, index, next)),
                                  next, start_index, Tail(outcomes))
               [] OTHER -> Leave(after, start_index, o.ret)

\* the buffered keys after the match against the key maps
Replaced(ed, start_index, match) ==
    IF match.kind = "ReplaceWith"
    THEN [ed EXCEPT !.buffered_keys = SubSeq(@, 1, start_index) \o match.keys]
    ELSE ed

\* Editor::execute_keys with keys.index = start_index
ExecuteKeys(ed, start_index, match, outcomes) ==
    IF match.kind = "Prefix" THEN [ed EXCEPT !.flow = "Continue"]
    ELSE ExecuteLoop(Replaced(ed, start_index, match), start_index, start_index,
                     outcomes)

\* the Key arm of Editor::on_client_event: a change of focus drops the
\* recording and the buffered keys; the key is pushed and executed from 0
OnClientKey(ed, key, focus_changed, match, outcomes) ==
    LET focused == IF focus_changed
                   THEN [ed EXCEPT !.recording_macro = FALSE,
                                   !.buffered_keys = <<>>,
                                   !.mode = "Normal"]
                   ELSE ed
    IN  ExecuteKeys([focused EXCEPT !.buffered_keys = Append(@, key)], 0, match, outcomes)

----------------------------------------------------------------------------
(* LspPlugin: the client entries and the recipes (plugin-lsp/src/lib.rs).  *)
(* A client is known by the number of the start that created it.           *)

NoClient == 0 - 1

Vacant == [state |-> "Vacant", client |-> NoClient]

Reserved == [state |-> "Reserved", client |-> NoClient]

Occupied(c) == [state |-> "Occupied", client |-> c]

\* LspPlugin::default(): no entries, no recipes; guards are the ClientGuards
\* handed out and not released, started counts the clients created, result
\* is the client the last lookup returned
DefaultLspPlugin ==
    [entries |-> <<>>, recipes |-> <<>>, guards |-> {}, started |-> 0,
     result |-> NoClient]

\* a reserve_and_take that hands the client out and leaves the entry Occupied
TakeWithoutReserving(entry) ==
    IF entry.state = "Occupied"
    THEN [entry |-> entry, client |-> entry.client]
    ELSE [entry |-> entry, client |-> NoClient]

\* ClientEntry::reserve_and_take: the entry afterwards and the client
\* returned (NoClient for None)
ReserveAndTake(entry) ==
    IF entry.state = "Occupied"
    THEN [entry |-> Reserved, client |-> entry.client]
    ELSE [entry |-> entry, client |-> NoClient]

\* LspPlugin::add_recipe: a recipe with the same glob is overwritten and
\* forgets its running client
AddRecipeTo(l, glob) ==
    IF \E i \in 1 .. Len(l.recipes) : l.recipes[i].glob = glob
    THEN [l EXCEPT !.recipes = [i \in 1 .. Len(l.recipes) |->
             IF l.recipes[i].glob = glob
                /\ \A j \in 1 .. i - 1 : l.recipes[j].glob # glob
             THEN [l.recipes[i] EXCEPT !.running_client = NoClient]
             ELSE l.recipes[i]]]
    ELSE [l EXCEPT !.recipes = Append(@, [glob |-> glob, running_client |-> NoClient])]

\* find_vacant_entry: the first Vacant entry, else a new one at the end
FindVacantEntry(l) ==
    IF \E i \in 1 .. Len(l.entries) : l.entries[i] = Vacant
    THEN (CHOOSE i \in 1 .. Len(l.entries) :
              /\ l.entries[i] = Vacant
              /\ \A j \in 1 .. i - 1 : l.entries[j] # Vacant) - 1
    ELSE Len(l.entries)

\* LspPlugin::start: the entry found holds a new client
StartClient(l) ==
    LET handle == FindVacantEntry(l)
        grown == IF handle = Len(l.entries) THEN Append(l.entries, Vacant) ELSE l.entries
    IN  [l EXCEPT !.entries = [grown EXCEPT ![handle + 1] = Occupied(l.started)],
                  !.started = @ + 1]

\* LspPlugin::stop: only an Occupied entry is stopped
StopClient(l, handle) ==
    IF l.entries[handle + 1].state = "Occupied"
    THEN [l EXCEPT !.entries[handle + 1] = Vacant,
                   !.recipes = [i \in 1 .. Len(l.recipes) |->
                       IF l.recipes[i].running_client = handle
                       THEN [l.recipes[i] EXCEPT !.running_client = NoClient]
                       ELSE l.recipes[i]]]
    ELSE l

RECURSIVE StopFrom(_, _)
\* LspPlugin::stop_all: stop(i) for every index
StopFrom(l, i) ==
    IF i >= Len(l.entries) THEN l ELSE StopFrom(StopClient(l, i), i + 1)

StopAllClients(l) == StopFrom(l, 0)

\* LspPlugin::get_mut
GetMutClient(l, handle) ==
    [l EXCEPT !.result = IF l.entries[handle + 1].state = "Occupied"
                         THEN l.entries[handle + 1].client ELSE NoClient]

\* LspPlugin::acquire: the guard holds the client taken
AcquireClient(l, handle) ==
    LET r == ReserveAndTake(l.entries[handle + 1])
    IN  [l EXCEPT !.entries[handle + 1] = r.entry,
                  !.result = r.client,
                  !.guards = IF r.client = NoClient THEN @
                             ELSE @ \cup {[handle |-> handle, client |-> r.client]}]

\* LspPlugin::release: the entry of the guard's client is Occupied with it
ReleaseClient(l, guard) ==
    [l EXCEPT !.entries[guard.handle + 1] = Occupied(guard.client),
              !.guards = @ \ {guard}]

\* LspPlugin::find_client: the first Occupied entry whose client satisfies
\* the predicate (given as the set of the clients that do) is acquired
FindClientIn(l, satisfying) ==
    LET found == {i \in 1 .. Len(l.entries) :
                     /\ l.entries[i].state = "Occupied"
                     /\ l.entries[i].client \in satisfying}
    IN  IF found = {} THEN [l EXCEPT !.result = NoClient]
        ELSE AcquireClient(l, (CHOOSE i \in found : \A j \in found : i <= j) - 1)

\* on_editor_events for a BufferRead whose path matches glob: the first
\* recipe with that glob starts its client unless one is running
OnBufferRead(l, glob) ==
    LET matching == {i \in 1 .. Len(l.recipes) : l.recipes[i].glob = glob}
    IN  IF matching = {} THEN l
        ELSE LET index == CHOOSE i \in matching : \A j \in matching : i <= j
             IN  IF l.recipes[index].running_client # NoClient THEN l
                 ELSE [StartClient(l) EXCEPT
                          !.recipes[index].running_client = FindVacantEntry(l)]

\* what a request, notification or response handler does with the plugin
\* while on_process_output holds the guard
Nested(l, call) ==
    CASE call.kind = "stop" -> StopClient(l, call.handle)
      [] call.kind = "stop_all" -> StopAllClients(l)
      [] call.kind = "start" -> StartClient(l)
      [] OTHER -> l

\* on_process_output: acquire the client, handle the events, release
OnProcessOutputOf(l, client_index, call) ==
    LET acquired == AcquireClient(l, client_index)
    IN  IF acquired.result = NoClient THEN acquired
        ELSE ReleaseClient(Nested(acquired, call),
                           [handle |-> client_index, client |-> acquired.result])

\* on_process_exit: the recipes forget the client of an Occupied entry
OnProcessExitOf(l, client_index) ==
    IF l.entries[client_index + 1].state = "Occupied"
    THEN [l EXCEPT !.recipes = [i \in 1 .. Len(l.recipes) |->
             IF l.recipes[i].running_client = client_index
             THEN [l.recipes[i] EXCEPT !.running_client = NoClient]
             ELSE l.recipes[i]]]
    ELSE l

----------------------------------------------------------------------------
(* Application: the client that writes display messages to its terminal    *)
(* and the server that handles platform events (src/application.rs).       *)
(* Bytes are numbers 0 .. 255.                                             *)

\* u32::to_le_bytes
ToLeBytes(n) == <<n % 256, (n \div 256) % 256, (n \div 65536) % 256, (n \div 16777216) % 256>>

\* u32::from_le_bytes
FromLeBytes(b) == b[1] + 256 * b[2] + 65536 * b[3] + 16777216 * b[4]

\* the display buffer the server writes to a connection: the length of the
\* rendered bytes in four bytes, then the rendered bytes
Frame(payload) == ToLeBytes(Len(payload)) \o payload

RECURSIVE Frames(_)
\* the byte stream of a connection that carries the messages in order
Frames(payloads) ==
    IF payloads = <<>> THEN <<>> ELSE Frame(payloads[1]) \o Frames(Tail(payloads))

\* ui::RESET_STYLE_CODE, an escape sequence, as one byte that no payload holds
ResetStyleCode == <<27>>

\* Client::new: nothing read and nothing written; stream holds the bytes the
\* connection has not delivered yet, received those it has
NewClient ==
    [read_buf |-> <<>>, write_buf |-> <<>>, stdout |-> <<>>,
     stream |-> <<>>, received |-> <<>>, result |-> TRUE]

\* the arm ClientEvent::Message(len) of Client::on_events: the bytes read
\* are appended to read_buf; once read_buf holds the length and that many
\* bytes, everything after the length is written and read_buf is cleared
OnMessage(c, len) ==
    LET n == Min(len, Len(c.stream))
        buf == c.read_buf \o SubSeq(c.stream, 1, n)
        rest == [c EXCEPT !.stream = SubSeq(@, n + 1, Len(@)),
                          !.received = @ \o SubSeq(c.stream, 1, n)]
    IN  IF Len(buf) < 4 \/ Len(buf) < FromLeBytes(SubSeq(buf, 1, 4)) + 4
        THEN [rest EXCEPT !.read_buf = buf]
        ELSE [rest EXCEPT !.stdout = @ \o SubSeq(buf, 5, Len(buf)) \o ResetStyleCode,
                          !.read_buf = <<>>]

\* one event of the slice given to on_events
ClientOnEvent(c, event) ==
    IF event.kind = "Message" THEN OnMessage(c, event.len)
    ELSE [c EXCEPT !.write_buf = Append(@, event.kind)]

RECURSIVE ClientEventLoop(_, _)
ClientEventLoop(c, events) ==
    IF events = <<>> THEN c
    ELSE ClientEventLoop(ClientOnEvent(c, events[1]), Tail(events))

\* Client::on_events: write_buf is cleared, the events are handled in order,
\* the serialized keys and resizes are written to the server
ClientOnEvents(c, events, write_ok) ==
    LET after == ClientEventLoop([c EXCEPT !.write_buf = <<>>], events)
    IN  [after EXCEPT !.result = (after.write_buf = <<>>) \/ write_ok]

\* Server::new: no client; open are the connections the platform holds open,
\* closed those that the event handled last closed, result what on_event
\* returned last
NewServer == [clients |-> {}, open |-> {}, closed |-> {}, result |-> TRUE]

\* platform.close_connection(index)
CloseConnection(sv, index) ==
    [sv EXCEPT !.open = @ \ {index}, !.closed = @ \cup {index}]

\* a match that ends the server on Quit as on QuitAll
AfterMatchQuitStops(sv, event) ==
    CASE event.kind = "ConnectionOpen" ->
             [sv |-> [sv EXCEPT !.clients = @ \cup {event.index},
                                !.open = @ \cup {event.index}],
              returned |-> FALSE]
      [] event.kind = "ConnectionClose" ->
             [sv |-> [sv EXCEPT !.clients = @ \ {event.index}, !.open = @ \ {event.index}],
              returned |-> sv.clients \ {event.index} = {}]
      [] event.kind = "ConnectionMessage" ->
             [sv |-> IF event.editor_loop = "Quit" THEN CloseConnection(sv, event.index)
                     ELSE sv,
              returned |-> event.editor_loop \in {"Quit", "QuitAll"}]
      [] OTHER -> [sv |-> sv, returned |-> FALSE]

\* the match on the event in Server::on_event: the server afterwards and
\* whether on_event returned false from within the match
AfterMatch(sv, event) ==
    CASE event.kind = "ConnectionOpen" ->
             [sv |-> [sv EXCEPT !.clients = @ \cup {event.index},
                                !.open = @ \cup {event.index}],
              returned |-> FALSE]
      [] event.kind = "ConnectionClose" ->
             [sv |-> [sv EXCEPT !.clients = @ \ {event.index}, !.open = @ \ {event.index}],
              returned |-> sv.clients \ {event.index} = {}]
      [] event.kind = "ConnectionMessage" ->
             [sv |-> IF event.editor_loop = "Quit" THEN CloseConnection(sv, event.index)
                     ELSE sv,
              returned |-> event.editor_loop = "QuitAll"]
      [] OTHER -> [sv |-> sv, returned |-> FALSE]

RECURSIVE DrainErrors(_, _)
\* the loop over connections_with_error (in the order of the clients): the
\* connection is closed and its client removed; the loop returns false when
\* no client is left
DrainErrors(sv, failed) ==
    IF failed = {} THEN [sv EXCEPT !.result = TRUE]
    ELSE LET handle == CHOOSE h \in failed : \A k \in failed : h <= k
             left == [CloseConnection(sv, handle) EXCEPT !.clients = @ \ {handle}]
         IN  IF left.clients = {} THEN [left EXCEPT !.result = FALSE]
             ELSE DrainErrors(left, failed \ {handle})

\* Server::on_event: failed are the clients for which write_to_connection
\* returns false
ServerOnEvent(sv, event, failed) ==
    LET m == AfterMatch([sv EXCEPT !.closed = {}], event)
    IN  IF m.returned THEN [m.sv EXCEPT !.result = FALSE]
        ELSE DrainErrors(m.sv, failed \cap m.sv.clients)

----------------------------------------------------------------------------
(* State *)

\* the last operation: its name and the handle it returned or (an early
\* return) was given, else -1.  A cursor movement goes by the movement's name
Op(name, h) == [name |-> name, handle |-> h]

\* BufferViewCollection::default() and an empty BufferCollection
Init ==
    /\ buffer_views = <<>>
    /\ buffers = [h \in BufferHandles |-> NoBuffer]
    /\ aborted = FALSE
    /\ op = Op("new", 0 - 1)
    /\ recorded = 0
    /\ scope = "all"
    /\ command = NoCommand
    /\ editor = NewEditor
    /\ lsp = DefaultLspPlugin
    /\ server = NewServer
    /\ client_application = NewClient

\* a panic ends the process: nothing of its state is left.  IndexPanic is
\* the out-of-bounds index of self.buffer_views[handle.0]
Crash(name) ==
    /\ aborted' = TRUE
    /\ op' = Op(name, 0 - 1)
    /\ buffer_views' = <<>>
    /\ buffers' = [h \in BufferHandles |-> NoBuffer]
    /\ recorded' = 0
    /\ UNCHANGED <<scope, command, editor, lsp, server, client_application>>

IndexPanic == Crash("index_panic")

Panic == Crash("panic")

\* a call that changes nothing and returns name's result h
NoOp(name, h) ==
    /\ op' = Op(name, h)
    /\ UNCHANGED <<buffer_views, buffers, aborted, recorded, scope, command, editor, lsp, server, client_application>>

\* the early return of an entry point or of move_cursors given handle h
Early(h) == NoOp("early_return", h)

\* self.buffer_views[handle.0] is Some(view) and buffers.get_mut(view.buffer_handle)
\* is Some(buffer)
Resolves(h) ==
    /\ IsLive(buffer_views, h)
    /\ buffer_views[h + 1].buffer_handle \in BufferHandles
    /\ buffers[buffer_views[h + 1].buffer_handle].live

ViewBuffer(h) == buffers[buffer_views[h + 1].buffer_handle]

\* the edit was made: the buffer is stored and the cursors of every view of
\* the buffer are fixed; a panic inside the edit loop aborts
Commit(name, h, kind, res) ==
    IF ~res.ok THEN Panic
    ELSE /\ FitsBounds(res.buffer.content)
         /\ buffers' = [buffers EXCEPT ![buffer_views[h + 1].buffer_handle] = res.buffer]
         /\ recorded' = recorded + 1
         /\ buffer_views' = FixBufferCursors(buffer_views,
                                buffer_views[h + 1].buffer_handle, kind, res.ranges)
         /\ op' = Op(name, 0 - 1)
         /\ UNCHANGED <<aborted, scope, command, editor, lsp, server, client_application>>

\* an entry point that unwraps the slot and the buffer instead of matching
EntryPointUnchecked(name, h, kind, res) ==
    /\ ~aborted
    /\ IF ~Resolves(h) THEN IndexPanic
       ELSE recorded < EditLimit /\ Commit(name, h, kind, res)

\* the common shape of the edit entry points: index the vector (panics when
\* out of range), return when the slot is vacant or the buffer is missing,
\* otherwise edit and fix up
EntryPoint(name, h, kind, res) ==
    /\ ~aborted
    /\ IF ~InRange(buffer_views, h) THEN IndexPanic
       ELSE IF ~Resolves(h) THEN Early(h)
       ELSE recorded < EditLimit /\ Commit(name, h, kind, res)

----------------------------------------------------------------------------
(* Registry operations *)

CanAdd == VacantSlots(buffer_views) # {} \/ Len(buffer_views) < MaxSlots

\* buffer_views.add(BufferView::new(client, bh))
Add(client, bh) ==
    /\ ~aborted
    /\ CanAdd
    /\ buffer_views' = AddView(buffer_views, NewView(client, bh))
    /\ op' = Op("add", AddHandle(buffer_views))
    /\ UNCHANGED <<buffers, aborted, recorded, scope, command, editor, lsp, server, client_application>>

\* a lookup that ignores the client: any live view of the buffer
ViewsOfAnyClient(client, bh) ==
    {h \in LiveHandles(buffer_views) : buffer_views[h + 1].buffer_handle = bh}

\* the live views of the buffer and the client
ViewsOf(client, bh) ==
    {h \in LiveHandles(buffer_views) :
        /\ buffer_views[h + 1].buffer_handle = bh
        /\ buffer_views[h + 1].target_client = client}

FirstOf(S) == CHOOSE h \in S : \A k \in S : h <= k

\* the view of (client, buffer) when one is live (the first), else a new one
BufferViewHandleFromBufferHandle(client, bh) ==
    /\ ~aborted
    /\ IF ViewsOf(client, bh) # {}
       THEN NoOp("buffer_view_handle_from_buffer_handle", FirstOf(ViewsOf(client, bh)))
       ELSE /\ CanAdd
            /\ buffer_views' = AddView(buffer_views, NewView(client, bh))
            /\ op' = Op("buffer_view_handle_from_buffer_handle", AddHandle(buffer_views))
            /\ UNCHANGED <<buffers, aborted, recorded, scope, command, editor, lsp, server, client_application>>

WithPath(path) == {h \in BufferHandles : buffers[h].live /\ buffers[h].path = path}

FreeBuffers == {h \in BufferHandles : ~buffers[h].live}

\* buffer_view_handle_from_path: the buffer of the path when one is open,
\* otherwise a new buffer holding the file's content; a blank path
\* (path < 0) or a failed read is an Err and changes nothing
BufferViewHandleFromPath(client, path, content, readFails) ==
    /\ ~aborted
    /\ IF WithPath(path) # {}
       THEN LET bh == FirstOf(WithPath(path))
            IN  IF ViewsOf(client, bh) # {}
                THEN NoOp("buffer_view_handle_from_path", FirstOf(ViewsOf(client, bh)))
                ELSE /\ CanAdd
                     /\ buffer_views' = AddView(buffer_views, NewView(client, bh))
                     /\ op' = Op("buffer_view_handle_from_path", AddHandle(buffer_views))
                     /\ UNCHANGED <<buffers, aborted, recorded, scope, command, editor, lsp, server, client_application>>
       ELSE IF path < 0 \/ readFails
       THEN NoOp("buffer_view_handle_from_path", 0 - 1)
       ELSE /\ CanAdd
            /\ FreeBuffers # {}
            /\ LET bh == FirstOf(FreeBuffers)
               IN  /\ buffers' = [buffers EXCEPT ![bh] = NewBuffer(path, content)]
                   /\ buffer_views' = AddView(buffer_views, NewView(client, bh))
            /\ op' = Op("buffer_view_handle_from_path", AddHandle(buffer_views))
            /\ UNCHANGED <<aborted, recorded, scope, command, editor, lsp, server, client_application>>

RemoveWhere(pred) ==
    /\ ~aborted
    /\ buffer_views' = RemoveViews(buffer_views, pred)
    /\ buffers' = RemoveBuffers(buffers, RemoveViews(buffer_views, pred))
    /\ op' = Op("remove_where", 0 - 1)
    /\ UNCHANGED <<aborted, recorded, scope, command, editor, lsp, server, client_application>>

\* get / get_mut: self.buffer_views[handle.0].as_ref()
Get(h) ==
    /\ ~aborted
    /\ IF InRange(buffer_views, h) THEN NoOp("get", 0 - 1) ELSE IndexPanic

----------------------------------------------------------------------------
(* Edit entry points *)

InsertTextAtPosition(h, p, text, ci) ==
    EntryPoint("insert_text_at_position", h, "insert",
        IF CanInsertAt(ViewBuffer(h), p)
        THEN EditResult(BufferInsertText(ViewBuffer(h), p, text, ci),
                        <<InsertedRange(p, text)>>, TRUE)
        ELSE EditResult(ViewBuffer(h), <<>>, FALSE))

InsertTextAtCursorPositions(h, text) ==
    EntryPoint("insert_text_at_cursor_positions", h, "insert",
        InsertAtCursors(ViewBuffer(h), buffer_views[h + 1].cursors,
                        Len(buffer_views[h + 1].cursors), text))

DeleteInRange(h, range, ci) ==
    EntryPoint("delete_in_range", h, "delete",
        IF CanDelete(ViewBuffer(h), range)
        THEN EditResult(BufferDeleteRange(ViewBuffer(h), range, ci), <<range>>, TRUE)
        ELSE EditResult(ViewBuffer(h), <<>>, FALSE))

DeleteInCursorRanges(h) ==
    EntryPoint("delete_in_cursor_ranges", h, "delete",
        DeleteAtCursors(ViewBuffer(h), buffer_views[h + 1].cursors,
                        Len(buffer_views[h + 1].cursors)))

ApplyCompletion(h, completion) ==
    EntryPoint("apply_completion", h, "completion",
        CompleteAtCursors(ViewBuffer(h), buffer_views[h + 1].cursors,
                          Len(buffer_views[h + 1].cursors), completion))

\* undo / redo: the buffer replays its history, apply_edits replays the
\* edits onto the cursors
Replay(name, h, edits, b) ==
    /\ ~aborted
    /\ IF ~InRange(buffer_views, h) THEN IndexPanic
       ELSE IF ~Resolves(h) THEN Early(h)
       ELSE /\ buffers' = [buffers EXCEPT ![buffer_views[h + 1].buffer_handle] = b]
            /\ buffer_views' = ApplyEdits(buffer_views, h, edits)
            /\ op' = Op(name, 0 - 1)
            /\ UNCHANGED <<aborted, recorded, scope, command, editor, lsp, server, client_application>>

Undo(h) == Replay("undo", h, UndoEdits(ViewBuffer(h)), BufferUndo(ViewBuffer(h)))

Redo(h) == Replay("redo", h, RedoEdits(ViewBuffer(h)), BufferRedo(ViewBuffer(h)))

\* BufferView::commit_edits, on the view a caller holds
CommitEdits(h) ==
    /\ ~aborted
    /\ IsLive(buffer_views, h)
    /\ IF Resolves(h)
       THEN buffers' = [buffers EXCEPT
                ![buffer_views[h + 1].buffer_handle].open = FALSE]
       ELSE UNCHANGED buffers
    /\ op' = Op("commit_edits", 0 - 1)
    /\ UNCHANGED <<buffer_views, aborted, recorded, scope, command, editor, lsp, server, client_application>>

\* BufferView::move_cursors, on the view a caller holds
MoveCursorsIn(checked, h, m, n, kind) ==
    IF checked \/ MovePanics(ViewBuffer(h).content, buffer_views[h + 1].cursors, m, n)
    THEN Panic
    ELSE /\ buffer_views' = [buffer_views EXCEPT ![h + 1].cursors =
                 MovedCursors(ViewBuffer(h).content, @, m, n, kind)]
         /\ op' = Op(IF ReturnsEarly(m, n) THEN "zero_count_return" ELSE m, 0 - 1)
         /\ UNCHANGED <<buffers, aborted, recorded, scope, command, editor, lsp, server, client_application>>

MoveCursors(h, m, n, kind) ==
    /\ ~aborted
    /\ IsLive(buffer_views, h)
    /\ IF ~Resolves(h) THEN Early(h)
       ELSE \E checked \in OverflowChecks(buffer_views[h + 1].cursors, m, n) :
                MoveCursorsIn(checked, h, m, n, kind)

PositionsOf(h) == IF Resolves(h) THEN Positions(ViewBuffer(h).content) ELSE {Origin}

RangesOf(h) == IF Resolves(h) THEN Ranges(ViewBuffer(h).content) ELSE {DefaultRange}

----------------------------------------------------------------------------
(* Specifications *)

Edits ==
    \/ \E h \in Handles, t \in Texts, ci \in CursorIndices :
           \E p \in PositionsOf(h) : InsertTextAtPosition(h, p, t, ci)
    \/ \E h \in Handles, t \in Texts : InsertTextAtCursorPositions(h, t)
    \/ \E h \in Handles, ci \in CursorIndices :
           \E r \in RangesOf(h) : DeleteInRange(h, r, ci)
    \/ \E h \in Handles : DeleteInCursorRanges(h)
    \/ \E h \in Handles, t \in Completions : ApplyCompletion(h, t)
    \/ \E h \in Handles : Undo(h)
    \/ \E h \in Handles : Redo(h)
    \/ \E h \in Handles : CommitEdits(h)

Moves ==
    \E h \in Handles, m \in MovementsIn, k \in MovementKinds :
        \E n \in (IF m \in Counted THEN Counts ELSE {0}) : MoveCursors(h, m, n, k)

Registry ==
    \/ \E c \in Clients, b \in BufferHandles : Add(c, b)
    \/ \E c \in Clients, b \in BufferHandles : BufferViewHandleFromBufferHandle(c, b)
    \/ \E c \in Clients, p \in Paths \cup {0 - 1}, t \in FileContents, f \in BOOLEAN :
           BufferViewHandleFromPath(c, p, t, f)
    \/ \E pred \in Predicates : RemoveWhere(pred)
    \/ \E h \in Handles : Get(h)

Next == Registry \/ Edits \/ Moves

Spec == Init /\ [][Next]_vars

----------------------------------------------------------------------------
(* SpecEdit: the edit entry points, undo, redo and cursor movements on a   *)
(* registry that holds two views of buffer 0, either after three opens     *)
(* (a view of buffer 1 in the last slot) or after the view in slot 0 was   *)
(* removed together with its buffer.  The cursors are where earlier        *)
(* movements and mut_guard().add() calls of the callers left them.         *)

Collapsed(p) == Cur(p, p)

EditContents == {<< <<"a">> >>, << <<"a">>, <<>> >>}

CursorLists(content) ==
    {<<Collapsed(p)>> : p \in Positions(content)}
    \cup {<<Collapsed(Origin), Collapsed(LastPosition(content))>>,
          <<Cur(Origin, LastPosition(content))>>,
          <<Cur(Origin, Pos(0, 1)), Cur(Pos(0, 1), LastPosition(content))>>}

SiblingLists(content) ==
    {<<Collapsed(LastPosition(content))>>,
     <<Collapsed(Origin), Collapsed(LastPosition(content))>>}

WithCursors(client, bh, cursors) == [NewView(client, bh) EXCEPT !.cursors = cursors]

InitEdit ==
    /\ scope = "edit"
    /\ command = NoCommand
    /\ editor = NewEditor
    /\ lsp = DefaultLspPlugin
    /\ server = NewServer
    /\ client_application = NewClient
    /\ aborted = FALSE
    /\ op = Op("new", 0 - 1)
    /\ recorded = 0
    /\ \E content \in EditContents, full \in BOOLEAN :
           \E c1 \in CursorLists(content), c2 \in SiblingLists(content) :
               /\ buffers = [h \in BufferHandles |->
                                IF h = 0 THEN NewBuffer(0, content)
                                ELSE IF full /\ h = 1 THEN NewBuffer(1, << <<"a">> >>)
                                ELSE NoBuffer]
               /\ buffer_views =
                      IF full
                      THEN <<WithCursors(0, 0, c1), WithCursors(1, 0, c2), NewView(0, 1)>>
                      ELSE <<NoView, WithCursors(0, 0, c1), WithCursors(1, 0, c2)>>

NextEdit == Edits \/ Moves

SpecEdit == InitEdit /\ [][NextEdit]_vars

----------------------------------------------------------------------------
(* SpecMove: move_cursors on the one view of one buffer *)

MoveContents ==
    {<< <<"a", "a">>, <<"a", " ", "a">>, <<"a", "a", "a", "a">>, <<"a", " ", "a">>,
        <<"a", "a">> >>,
     << <<"a", "c3", "a7">>, <<>>, <<" ", ".", "a">> >>,
     << <<" ", "a">>, <<"a">> >>}

AllPositions(content) ==
    {p \in UNION {{Pos(l, c) : c \in 0 .. Len(content[l + 1])} :
                      l \in 0 .. Len(content) - 1} :
        IsBoundaryPosition(content, p)}

Singles(content) == {<<Collapsed(p)>> : p \in AllPositions(content)}

Pairs(content) ==
    {<<Collapsed(Origin), Collapsed(LastPosition(content))>>,
     <<Collapsed(Origin), Collapsed(Pos(0, 1))>>}

\* every text with one cursor, the short text with one or two
MoveCursorLists(content) ==
    IF Len(content) > MaxLines THEN Singles(content)
    ELSE Singles(content) \cup Pairs(content)

InitMove ==
    /\ scope = "move"
    /\ command = NoCommand
    /\ editor = NewEditor
    /\ lsp = DefaultLspPlugin
    /\ server = NewServer
    /\ client_application = NewClient
    /\ aborted = FALSE
    /\ op = Op("new", 0 - 1)
    /\ recorded = 0
    /\ \E content \in MoveContents :
           \E cursors \in MoveCursorLists(content) :
               /\ buffers = [h \in BufferHandles |->
                                IF h = 0 THEN NewBuffer(0, content) ELSE NoBuffer]
               /\ buffer_views = <<WithCursors(0, 0, cursors)>>

SpecMove == InitMove /\ [][Moves]_vars

----------------------------------------------------------------------------
(* SpecBatch: one edit through a view with one or two cursors, on texts    *)
(* with two words on a line or on two lines, with a sibling view of the    *)
(* same buffer.  SpecPair: an insert at a position and a delete of a range *)
(* one after the other.                                                    *)

BatchContents == {<< <<"a", "a">> >>, << <<"a", " ">> >>, << <<"a", " ", "a">> >>,
                  << <<"a">>, <<"a">> >>}

\* two selections that PositionOnly movements of the cursors at (0,0) and
\* (0,1) end on: both reach to the same place, so their ranges overlap
OverlappingPair(content) ==
    IF Len(content[1]) >= 2
    THEN <<Cur(Origin, Pos(0, 2)), Cur(Pos(0, 1), Pos(0, 2))>>
    ELSE <<Cur(Origin, Pos(1, 0)), Cur(Pos(0, 1), Pos(1, 0))>>

\* the ends of the words, the start and the end of the text, alone or in
\* pairs, the first character selected, and two overlapping selections
BatchCursorLists(content) ==
    {<<Collapsed(p)>> : p \in {Origin, Pos(0, 1), Pos(0, Len(content[1])),
                               LastPosition(content)}}
    \cup {<<Cur(Origin, Pos(0, 1))>>, OverlappingPair(content)}
    \cup {<<Collapsed(Pos(0, 1)), Collapsed(LastPosition(content))>>,
          <<Collapsed(Origin), Collapsed(Pos(0, 1))>>}

InitBatch ==
    /\ scope = "batch"
    /\ command = NoCommand
    /\ editor = NewEditor
    /\ lsp = DefaultLspPlugin
    /\ server = NewServer
    /\ client_application = NewClient
    /\ aborted = FALSE
    /\ op = Op("new", 0 - 1)
    /\ recorded = 0
    /\ \E content \in BatchContents :
           \E c1 \in BatchCursorLists(content), c2 \in SiblingLists(content) :
               /\ buffers = [h \in BufferHandles |->
                                IF h = 0 THEN NewBuffer(0, content) ELSE NoBuffer]
               /\ buffer_views = <<WithCursors(0, 0, c1), WithCursors(1, 0, c2)>>

SpecBatch == InitBatch /\ [][Edits]_vars

\* cursors with and without a selection around the places edited
PairCursorLists(content) ==
    {<<Collapsed(Pos(0, 1))>>,
     <<Collapsed(Origin), Cur(Pos(0, 1), LastPosition(content))>>,
     <<Cur(LastPosition(content), Origin)>>}

InitPair ==
    /\ scope = "pair"
    /\ command = NoCommand
    /\ editor = NewEditor
    /\ lsp = DefaultLspPlugin
    /\ server = NewServer
    /\ client_application = NewClient
    /\ aborted = FALSE
    /\ op = Op("new", 0 - 1)
    /\ recorded = 0
    /\ \E content \in EditContents \cup BatchContents :
           \E c1 \in PairCursorLists(content), c2 \in SiblingLists(content) :
               /\ buffers = [h \in BufferHandles |->
                                IF h = 0 THEN NewBuffer(0, content) ELSE NoBuffer]
               /\ buffer_views = <<WithCursors(0, 0, c1), WithCursors(1, 0, c2)>>

NextPair ==
    \/ \E h \in Handles, t \in Texts, ci \in CursorIndices :
           \E p \in PositionsOf(h) : InsertTextAtPosition(h, p, t, ci)
    \/ \E h \in Handles, ci \in CursorIndices :
           \E r \in RangesOf(h) : DeleteInRange(h, r, ci)

SpecPair == InitPair /\ [][NextPair]_vars

----------------------------------------------------------------------------
(* SpecParse: CommandManager::parse on the command lines made of at most   *)
(* MaxPieces pieces: the command, another word, blanks, quotes, a flag,    *)
(* "=" and "!".                                                            *)

Pieces ==
    {<<"c">>, <<"c3", "a7">>, <<" ">>, <<"!">>, <<"-", "o">>, <<"=">>, <<"'">>, <<"\"">>}

RECURSIVE Concat(_)
Concat(ps) == IF ps = <<>> THEN <<>> ELSE ps[1] \o Concat(Tail(ps))

InitParse ==
    /\ scope = "parse"
    /\ buffer_views = <<>>
    /\ buffers = [h \in BufferHandles |-> NoBuffer]
    /\ aborted = FALSE
    /\ op = Op("new", 0 - 1)
    /\ recorded = 0
    /\ editor = NewEditor
    /\ lsp = DefaultLspPlugin
    /\ server = NewServer
    /\ client_application = NewClient
    /\ \E n \in 0 .. MaxPieces : \E ps \in [1 .. n -> Pieces] :
           command = [text |-> Concat(ps), result |-> NoResult]

\* commands.parse(text): the result, and parsed_args, replace the last ones
ParseCommand ==
    /\ command.result = NoResult
    /\ command' = [command EXCEPT !.result = Parse(command.text)]
    /\ op' = Op("parse", 0 - 1)
    /\ UNCHANGED <<buffer_views, buffers, aborted, recorded, scope, editor, lsp, server, client_application>>

SpecParse == InitParse /\ [][ParseCommand]_vars

----------------------------------------------------------------------------
(* SpecKeys: keys arrive from a client or are parsed from a string and are *)
(* executed; Mode::on_keys consumes one or two keys a call, may enqueue     *)
(* editor events and returns a flow or None.                                *)

MaxKeys == 2
MaxQueued == 2

KeyItems == Keys \cup {KeyError}

\* what the key parser yields for a string: up to MaxKeys items
ParsedStrings == UNION {[1 .. n -> KeyItems] : n \in 0 .. MaxKeys}

Flows == {"Continue", "Suspend", "Quit"}

\* what one call of Mode::on_keys does
OnKeysOutcomes ==
    [consumed : {1, 2},
     events : {<<>>, <<"BufferInsertText", "FixCursors">>},
     ret : Flows \cup {"None"}]

\* the call after one that did not continue is never made
Unused == [consumed |-> 1, events |-> <<>>, ret |-> "None"]

\* as many outcomes as keys can be buffered: every call takes a key
OutcomeLists ==
    {os \in [1 .. MaxKeys -> OnKeysOutcomes] :
        \A i \in 1 .. MaxKeys - 1 : os[i].ret # "Continue" => os[i + 1] = Unused}

\* what keymaps.matches returns; only buffered keys are replaced
KeyMapMatches(ed, start_index) ==
    {[kind |-> "None", keys |-> <<>>], [kind |-> "Prefix", keys |-> <<>>]}
        \cup (IF start_index < Len(ed.buffered_keys)
              THEN {[kind |-> "ReplaceWith", keys |-> <<"b">>]} ELSE {})

\* the editor when an operation starts: nothing enqueued or dispatched by it
Entering(ed) == [ed EXCEPT !.enqueued = <<>>, !.dispatched = <<>>]

CanTakeKeys ==
    /\ Len(editor.events) <= MaxQueued
    /\ Len(editor.register) <= MaxKeys

InitKeys ==
    /\ scope = "keys"
    /\ buffer_views = <<>>
    /\ buffers = [h \in BufferHandles |-> NoBuffer]
    /\ aborted = FALSE
    /\ op = Op("new", 0 - 1)
    /\ recorded = 0
    /\ command = NoCommand
    /\ lsp = DefaultLspPlugin
    /\ server = NewServer
    /\ client_application = NewClient
    /\ \E m \in {"Normal", "Insert"}, r \in BOOLEAN :
           editor = [NewEditor EXCEPT !.mode = m, !.recording_macro = r]

\* editor.buffered_keys.parse(keys)
ParseKeys(items) ==
    /\ ~editor.parsed.ok
    /\ Len(editor.buffered_keys) + Len(items) <= MaxKeys
    /\ LET r == BufferedKeysParse(editor.buffered_keys, items)
       IN  editor' = [Entering(editor) EXCEPT !.buffered_keys = r.keys,
                                              !.parsed = [ok |-> r.ok, index |-> r.index]]
    /\ op' = Op("parse_keys", 0 - 1)
    /\ UNCHANGED <<buffer_views, buffers, aborted, recorded, scope, command, lsp, server, client_application>>

\* Editor::execute_keys with the iterator that parse returned
ExecuteParsedKeys(match, outcomes) ==
    /\ editor.parsed.ok
    /\ CanTakeKeys
    /\ editor' = [ExecuteKeys(Entering(editor), editor.parsed.index, match, outcomes)
                     EXCEPT !.parsed = [ok |-> FALSE, index |-> 0]]
    /\ op' = Op("execute_keys", 0 - 1)
    /\ UNCHANGED <<buffer_views, buffers, aborted, recorded, scope, command, lsp, server, client_application>>

\* Editor::on_client_event(ClientEvent::Key(target, key))
OnClientEvent(key, focus_changed, match, outcomes) ==
    /\ ~editor.parsed.ok
    /\ CanTakeKeys
    /\ focus_changed \/ Len(editor.buffered_keys) < MaxKeys
    /\ editor' = OnClientKey(Entering(editor), key, focus_changed, match, outcomes)
    /\ op' = Op("on_client_event", 0 - 1)
    /\ UNCHANGED <<buffer_views, buffers, aborted, recorded, scope, command, lsp, server, client_application>>

NextKeys ==
    \/ \E items \in ParsedStrings : ParseKeys(items)
    \/ \E outcomes \in OutcomeLists :
           \E match \in KeyMapMatches(editor, editor.parsed.index) :
               ExecuteParsedKeys(match, outcomes)
    \/ \E key \in Keys, f \in BOOLEAN, outcomes \in OutcomeLists :
           \E match \in {[kind |-> "None", keys |-> <<>>], [kind |-> "Prefix", keys |-> <<>>],
                         [kind |-> "ReplaceWith", keys |-> <<"b">>]} :
               OnClientEvent(key, f, match, outcomes)

SpecKeys == InitKeys /\ [][NextKeys]_vars

----------------------------------------------------------------------------
(* SpecLsp: recipes are added, clients are started, stopped, looked up,    *)
(* acquired and released, and their processes write output and exit.  The  *)
(* handles given are those of entries that exist.                          *)

MaxEntries == 2
MaxStarts == 3

Globs == {0, 1}

EntryHandles == 0 .. Len(lsp.entries) - 1

CanStart ==
    /\ lsp.started < MaxStarts
    /\ Vacant \in SeqRange(lsp.entries) \/ Len(lsp.entries) < MaxEntries

\* the calls a handler makes while on_process_output holds the guard
NestedCalls ==
    {[kind |-> "none", handle |-> NoClient], [kind |-> "stop_all", handle |-> NoClient]}
        \cup {[kind |-> "stop", handle |-> h] : h \in EntryHandles}
        \cup (IF CanStart THEN {[kind |-> "start", handle |-> NoClient]} ELSE {})

InitLsp ==
    /\ scope = "lsp"
    /\ buffer_views = <<>>
    /\ buffers = [h \in BufferHandles |-> NoBuffer]
    /\ aborted = FALSE
    /\ op = Op("new", 0 - 1)
    /\ recorded = 0
    /\ command = NoCommand
    /\ editor = NewEditor
    /\ lsp = DefaultLspPlugin
    /\ server = NewServer
    /\ client_application = NewClient

\* an operation of the plugin named name, given or returning handle h
LspStep(name, h, after) ==
    /\ lsp' = after
    /\ op' = Op(name, h)
    /\ UNCHANGED <<buffer_views, buffers, aborted, recorded, scope, command, editor, server, client_application>>

AddRecipe(glob) == LspStep("add_recipe", 0 - 1, AddRecipeTo(lsp, glob))

Start == CanStart /\ LspStep("start", FindVacantEntry(lsp), StartClient(lsp))

Stop(h) == LspStep("stop", h, StopClient(lsp, h))

StopAll == LspStep("stop_all", 0 - 1, StopAllClients(lsp))

GetMut(h) == LspStep("get_mut", h, GetMutClient(lsp, h))

Acquire(h) == LspStep("acquire", h, AcquireClient(lsp, h))

Release(guard) == LspStep("release", guard.handle, ReleaseClient(lsp, guard))

FindClient(satisfying) == LspStep("find_client", 0 - 1, FindClientIn(lsp, satisfying))

OnEditorEvents(glob) ==
    /\ CanStart
    /\ LspStep("on_editor_events", 0 - 1, OnBufferRead(lsp, glob))

OnProcessOutput(h, call) ==
    LspStep("on_process_output", h, OnProcessOutputOf(lsp, h, call))

OnProcessExit(h) == LspStep("on_process_exit", h, OnProcessExitOf(lsp, h))

NextLsp ==
    \/ \E g \in Globs : AddRecipe(g)
    \/ Start
    \/ \E h \in EntryHandles : Stop(h)
    \/ StopAll
    \/ \E h \in EntryHandles : GetMut(h)
    \/ \E h \in EntryHandles : Acquire(h)
    \/ \E guard \in lsp.guards : Release(guard)
    \/ \E satisfying \in SUBSET (0 .. MaxStarts - 1) : FindClient(satisfying)
    \/ \E g \in Globs : OnEditorEvents(g)
    \/ \E h \in EntryHandles : \E call \in NestedCalls : OnProcessOutput(h, call)
    \/ \E h \in EntryHandles : OnProcessExit(h)

SpecLsp == InitLsp /\ [][NextLsp]_vars

----------------------------------------------------------------------------
(* SpecClient: the server's display messages reach the client in Message   *)
(* events that split and join the byte stream in every way; keys and       *)
(* resizes come in between.                                                *)

MaxMessages == 2

Payloads == {<<>>, <<65>>, <<65, 66>>}

PayloadLists == UNION {[1 .. n -> Payloads] : n \in 1 .. MaxMessages}

\* the slices of events on_events is given: one or two events, the Message
\* events announcing bytes that the connection holds
ClientEvents ==
    {[kind |-> "Key", len |-> 0], [kind |-> "Resize", len |-> 0]}
        \cup {[kind |-> "Message", len |-> n] : n \in 1 .. Len(client_application.stream)}

EventSlices ==
    {es \in UNION {[1 .. n -> ClientEvents] : n \in 1 .. 2} :
        (IF es[1].kind = "Message" THEN es[1].len ELSE 0)
            + (IF Len(es) = 2 /\ es[2].kind = "Message" THEN es[2].len ELSE 0)
                <= Len(client_application.stream)}

InitClient ==
    /\ scope = "client"
    /\ buffer_views = <<>>
    /\ buffers = [h \in BufferHandles |-> NoBuffer]
    /\ aborted = FALSE
    /\ op = Op("new", 0 - 1)
    /\ recorded = 0
    /\ command = NoCommand
    /\ editor = NewEditor
    /\ lsp = DefaultLspPlugin
    /\ server = NewServer
    /\ \E ms \in PayloadLists : client_application = [NewClient EXCEPT !.stream = Frames(ms)]

\* Client::on_events(platform, events)
OnEvents(events, write_ok) ==
    /\ client_application.result
    /\ client_application' = ClientOnEvents(client_application, events, write_ok)
    /\ op' = Op("on_events", 0 - 1)
    /\ UNCHANGED <<buffer_views, buffers, aborted, recorded, scope, command, editor, lsp,
                   server>>

NextClient == \E events \in EventSlices, write_ok \in BOOLEAN : OnEvents(events, write_ok)

SpecClient == InitClient /\ [][NextClient]_vars

----------------------------------------------------------------------------
(* SpecServer: connections open and close, clients send messages that the  *)
(* editor answers with Continue, Quit or QuitAll, and writes to            *)
(* connections fail.                                                       *)

MaxConnections == 3

Connections == 0 .. MaxConnections - 1

ServerEvents ==
    {[kind |-> k, index |-> 0, editor_loop |-> "Continue"] :
         k \in {"Redraw", "Idle", "ProcessStdout"}}
        \cup {[kind |-> "ConnectionOpen", index |-> i, editor_loop |-> "Continue"] :
                  i \in Connections \ (server.open \cup server.clients)}
        \cup {[kind |-> "ConnectionClose", index |-> i, editor_loop |-> "Continue"] :
                  i \in server.open \cup server.clients}
        \cup {[kind |-> "ConnectionMessage", index |-> i, editor_loop |-> l] :
                  i \in server.open \cap server.clients,
                  l \in {"Continue", "Quit", "QuitAll"}}

InitServer ==
    /\ scope = "server"
    /\ buffer_views = <<>>
    /\ buffers = [h \in BufferHandles |-> NoBuffer]
    /\ aborted = FALSE
    /\ op = Op("new", 0 - 1)
    /\ recorded = 0
    /\ command = NoCommand
    /\ editor = NewEditor
    /\ lsp = DefaultLspPlugin
    /\ server = NewServer
    /\ client_application = NewClient

\* Server::on_event(platform, event)
OnEvent(event, failed) ==
    /\ server.result
    /\ server' = ServerOnEvent(server, event, failed)
    /\ op' = Op(event.kind, event.index)
    /\ UNCHANGED <<buffer_views, buffers, aborted, recorded, scope, command, editor, lsp,
                   client_application>>

NextServer == \E event \in ServerEvents, failed \in SUBSET Connections : OnEvent(event, failed)

SpecServer == InitServer /\ [][NextServer]_vars

----------------------------------------------------------------------------
(* Properties *)

EditNames ==
    {"insert_text_at_position", "insert_text_at_cursor_positions",
     "delete_in_range", "delete_in_cursor_ranges"}

RECURSIVE InOrder(_, _, _, _)
\* cursor c after Cursor.insert (insert = TRUE) or Cursor.delete with
\* ranges[k], ranges[k + 1], ... one after the other
InOrder(insert, c, ranges, k) ==
    IF k > Len(ranges) THEN c
    ELSE InOrder(insert,
                 IF insert THEN CursorInsert(c, ranges[k]) ELSE CursorDelete(c, ranges[k]),
                 ranges, k + 1)

\* the step leaves in every view of h's buffer exactly the cursors it had,
\* each taken through the ranges, and leaves every other slot alone
FixedBy(h, insert, ranges) ==
    /\ Len(buffer_views') = Len(buffer_views)
    /\ \A i \in 1 .. Len(buffer_views) :
           IF /\ buffer_views[i] # NoView
              /\ buffer_views[i].buffer_handle = buffer_views[h + 1].buffer_handle
           THEN /\ buffer_views'[i] # NoView
                /\ buffer_views'[i].buffer_handle = buffer_views[i].buffer_handle
                /\ SeqRange(buffer_views'[i].cursors) =
                       {InOrder(insert, c, ranges, 1) :
                            c \in SeqRange(buffer_views[i].cursors)}
           ELSE buffer_views'[i] = buffer_views[i]

\* the ranges the loops over the issuing view's cursors collect, last cursor first
InsertedAtCursors(cursors, text) ==
    [k \in 1 .. Len(cursors) |->
        InsertedRange(cursors[Len(cursors) + 1 - k].position, text)]

DeletedAtCursors(cursors) ==
    [k \in 1 .. Len(cursors) |-> CursorAsRange(cursors[Len(cursors) + 1 - k])]

\* C1: after insert_text_at_position, insert_text_at_cursor_positions,
\* delete_in_range or delete_in_cursor_ranges through a view, every cursor of
\* every live view of the same buffer (the issuing view and its siblings) is
\* its value before the call taken through Cursor.insert / Cursor.delete with
\* each collected range in the order of the edits, and the views of other
\* buffers are unchanged.
CrossViewFixup ==
    [][\A h \in Handles : (op'.name \in EditNames /\ Resolves(h)) =>
          /\ \A t \in Texts, ci \in CursorIndices, p \in PositionsOf(h) :
                 InsertTextAtPosition(h, p, t, ci)
                     => FixedBy(h, TRUE, <<InsertedRange(p, t)>>)
          /\ \A t \in Texts :
                 InsertTextAtCursorPositions(h, t)
                     => FixedBy(h, TRUE, InsertedAtCursors(buffer_views[h + 1].cursors, t))
          /\ \A ci \in CursorIndices, r \in RangesOf(h) :
                 DeleteInRange(h, r, ci) => FixedBy(h, FALSE, <<r>>)
          /\ DeleteInCursorRanges(h)
                 => FixedBy(h, FALSE, DeletedAtCursors(buffer_views[h + 1].cursors))]_vars

\* an insert through one of three live views moved the sibling's cursor from
\* the end of "a" to column 2 and left the view of the other buffer alone
SiblingFixedUp ==
    /\ op.name \in EditNames
    /\ LiveHandles(buffer_views) = {0, 1, 2}
    /\ buffer_views[2].buffer_handle = buffer_views[1].buffer_handle
    /\ Collapsed(Pos(0, 2)) \in SeqRange(buffer_views[2].cursors)
    /\ buffer_views[3].buffer_handle # buffer_views[1].buffer_handle
    /\ buffer_views[3].cursors = <<DefaultCursor>>

RECURSIVE Replayed(_, _, _)
\* cursor c after the replayed edits[k], edits[k + 1], ...: Cursor.insert for
\* an Insert edit, Cursor.delete for a Delete edit
Replayed(c, edits, k) ==
    IF k > Len(edits) THEN c
    ELSE Replayed(IF edits[k].kind = "Insert" THEN CursorInsert(c, edits[k].range)
                  ELSE CursorDelete(c, edits[k].range),
                  edits, k + 1)

\* the step takes the cursors of every live view of h's buffer other than h
\* through the edits and leaves the views of other buffers alone
SiblingsReplayed(h, edits) ==
    /\ Len(buffer_views') = Len(buffer_views)
    /\ \A i \in 1 .. Len(buffer_views) : i # h + 1 =>
           IF /\ buffer_views[i] # NoView
              /\ buffer_views[i].buffer_handle = buffer_views[h + 1].buffer_handle
           THEN /\ buffer_views'[i] # NoView
                /\ SeqRange(buffer_views'[i].cursors) =
                       {Replayed(c, edits, 1) : c \in SeqRange(buffer_views[i].cursors)}
           ELSE buffer_views'[i] = buffer_views[i]

\* C2: undo or redo through handle h applies every replayed edit (Cursor.insert
\* for an Insert, Cursor.delete for a Delete) to the cursors of every live view
\* of the same buffer other than h, and to no view of another buffer, whatever
\* slots of the registry are vacant.
ReplayFixesEverySibling ==
    [][\A h \in Handles : (op'.name \in {"undo", "redo"} /\ Resolves(h)) =>
          /\ Undo(h) => SiblingsReplayed(h, UndoEdits(ViewBuffer(h)))
          /\ Redo(h) => SiblingsReplayed(h, RedoEdits(ViewBuffer(h)))]_vars

\* the registry after insert_text_at_position(h, p, t, ci) and then undo(h)
InsertThenUndo(h, p, t, ci) ==
    ApplyEdits(FixBufferCursors(buffer_views, buffer_views[h + 1].buffer_handle,
                                "insert", <<InsertedRange(p, t)>>),
               h, UndoEdits(BufferInsertText(ViewBuffer(h), p, t, ci)))

\* after the insert and the undo the issuing view holds a collapsed cursor at
\* p and every sibling has the cursors it had before the insert
UndoneFor(h, p, after) ==
    /\ Collapsed(p) \in SeqRange(after[h + 1].cursors)
    /\ \A i \in 1 .. Len(buffer_views) :
           (/\ i # h + 1
            /\ buffer_views[i] # NoView
            /\ buffer_views[i].buffer_handle = buffer_views[h + 1].buffer_handle)
               => after[i].cursors = buffer_views[i].cursors

\* C3: when view V1 inserts text T at p (an edit group of its own) and undo is
\* then issued through V1, V1 holds a zero-width cursor at p, and every cursor
\* of a sibling view V2 of the same buffer ends where it was before the
\* insert: one after the inserted text moves back by the span of T, one
\* before p stays, none is reset.
UndoRestoresSibling ==
    \A h \in Handles : (~aborted /\ Resolves(h) /\ ~ViewBuffer(h).open) =>
        \A t \in Texts, ci \in CursorIndices, p \in PositionsOf(h) :
            UndoneFor(h, p, InsertThenUndo(h, p, t, ci))

\* line_index < line_count and column_byte_index <= the line's byte length
InBuffer(content, p) ==
    /\ p.line_index >= 0
    /\ p.line_index < Len(content)
    /\ p.column_byte_index >= 0
    /\ p.column_byte_index <= Len(content[p.line_index + 1])

\* C7: after any sequence of cursor movements and edit entry points (insert,
\* delete, completion, undo, redo) through any views, every cursor anchor and
\* position of every live view satisfies line_index < line_count of its
\* buffer and column_byte_index <= the byte length of that line.
CursorsStayInBuffer ==
    \A h \in LiveHandles(buffer_views) : Resolves(h) =>
        \A c \in SeqRange(buffer_views[h + 1].cursors) :
            /\ InBuffer(ViewBuffer(h).content, c.anchor)
            /\ InBuffer(ViewBuffer(h).content, c.position)

\* some edit entry point is called with handle h
AnyEdit(h) ==
    \/ \E t \in Texts, ci \in CursorIndices, p \in PositionsOf(h) :
           InsertTextAtPosition(h, p, t, ci)
    \/ \E t \in Texts : InsertTextAtCursorPositions(h, t)
    \/ \E ci \in CursorIndices, r \in RangesOf(h) : DeleteInRange(h, r, ci)
    \/ DeleteInCursorRanges(h)
    \/ \E t \in Completions : ApplyCompletion(h, t)
    \/ Undo(h)
    \/ Redo(h)

\* move_cursors is called on the view of handle h
AnyMove(h) ==
    \E m \in Movements, k \in MovementKinds, n \in Counts : MoveCursors(h, m, n, k)

\* C4: every edit entry point (insert_text_at_position,
\* insert_text_at_cursor_positions, delete_in_range, delete_in_cursor_ranges,
\* apply_completion, undo, redo) and move_cursors, given a handle of a vacant
\* slot or a view whose buffer_handle designates no buffer, returns normally
\* and leaves every buffer's text and every view's cursors unchanged.
StaleHandleIsNoOp ==
    [][\A h \in Handles :
          (/\ ~aborted
           /\ InRange(buffer_views, h)
           /\ ~Resolves(h)
           /\ (AnyEdit(h) \/ AnyMove(h)))
              => (~aborted' /\ UNCHANGED <<buffer_views, buffers>>)]_vars

\* an entry point returned early on the handle of a slot that was vacated
StaleHandleReturned ==
    /\ ~aborted
    /\ op.name = "early_return"
    /\ InRange(buffer_views, op.handle)
    /\ buffer_views[op.handle + 1] = NoView
    /\ LiveHandles(buffer_views) # {}

\* C5: for every handle value, also one at or past the number of slots ever
\* allocated, get and get_mut return None and every edit entry point is a
\* no-op: no lookup aborts on an unknown handle.
UnknownHandleIsNoOp ==
    [][\A h \in Handles :
          (~aborted /\ ~InRange(buffer_views, h) /\ (Get(h) \/ AnyEdit(h)))
              => (~aborted' /\ UNCHANGED <<buffer_views, buffers>>)]_vars

\* the lowest vacant slot, or the slot after the last
LowestFree(views) ==
    CHOOSE h \in 0 .. Len(views) :
        /\ h = Len(views) \/ views[h + 1] = NoView
        /\ \A k \in 0 .. h - 1 : views[k + 1] # NoView

\* a view was added (add, or the add inside buffer_view_handle_from_*)
Adds ==
    /\ op'.handle >= 0
    /\ buffer_views' # buffer_views
    /\ \/ \E c \in Clients, b \in BufferHandles : Add(c, b)
       \/ \E c \in Clients, b \in BufferHandles : BufferViewHandleFromBufferHandle(c, b)
       \/ \E c \in Clients, p \in Paths, t \in FileContents :
              BufferViewHandleFromPath(c, p, t, FALSE)

\* C6: across add and remove_where the handle of a live view never changes
\* and never designates another view; add returns the lowest vacant slot if
\* there is one, else a new slot at the end, so a handle is handed out again
\* only after the view it designated was removed.
HandlesAreStable ==
    [][/\ Adds =>
            /\ op'.handle = LowestFree(buffer_views)
            /\ Len(buffer_views') = Max(Len(buffer_views), op'.handle + 1)
            /\ IsLive(buffer_views', op'.handle)
            /\ \A h \in 0 .. Len(buffer_views) - 1 :
                   h # op'.handle => buffer_views'[h + 1] = buffer_views[h + 1]
       /\ (\E pred \in Predicates : RemoveWhere(pred)) =>
            /\ Len(buffer_views') = Len(buffer_views)
            /\ \A h \in 0 .. Len(buffer_views) - 1 :
                   buffer_views'[h + 1] \in {buffer_views[h + 1], NoView}]_vars

\* add handed out a handle below the last slot: the slot of a removed view
SlotReused ==
    /\ op.name = "add"
    /\ op.handle + 1 < Len(buffer_views)
    /\ IsLive(buffer_views, op.handle)

\* C8: after every operation that changes a view's cursors under the mutation
\* guard (move_cursors, the fixup of every edit, the rebuild of undo and redo)
\* the view's cursors are sorted by position and no two of them have the same
\* (anchor, position).
CursorsNormalized ==
    \A h \in LiveHandles(buffer_views) :
        \A i, j \in 1 .. Len(buffer_views[h + 1].cursors) : i < j =>
            /\ PosLeq(buffer_views[h + 1].cursors[i].position,
                      buffer_views[h + 1].cursors[j].position)
            /\ buffer_views[h + 1].cursors[i] # buffer_views[h + 1].cursors[j]

\* undo of an insert recorded for cursor 1 rebuilt the issuing view's
\* cursors: the default cursor for index 0 and one where the text was
RebuiltTwoCursors ==
    /\ op.name = "undo"
    /\ \E h \in LiveHandles(buffer_views) :
           /\ Resolves(h)
           /\ ViewBuffer(h).index = 0
           /\ Len(ViewBuffer(h).groups) = 1
           /\ \E e \in SeqRange(ViewBuffer(h).groups[1]) :
                  /\ e.kind = "Insert"
                  /\ e.cursor_index = 1
                  /\ e.range.from # Origin
                  /\ buffer_views[h + 1].cursors
                         = <<DefaultCursor, Collapsed(e.range.from)>>

\* C9: move_cursors with a zero count that returns early (ColumnsBackward(0),
\* WordsForward(0), WordsBackward(0)) still releases the mutation guard: the
\* cursors are left normalized and every cursor position is unchanged.
ZeroCountKeepsCursors ==
    [][\A h \in Handles, k \in MovementKinds :
          \A m \in {"ColumnsBackward", "WordsForward", "WordsBackward"} :
              (op'.name \in {"zero_count_return", m} /\ Resolves(h)
                   /\ MoveCursors(h, m, 0, k)) =>
                  /\ ~aborted'
                  /\ Len(buffer_views'[h + 1].cursors) = Len(buffer_views[h + 1].cursors)
                  /\ \A i \in 1 .. Len(buffer_views[h + 1].cursors) :
                         buffer_views'[h + 1].cursors[i].position
                             = buffer_views[h + 1].cursors[i].position
                  /\ \A i, j \in 1 .. Len(buffer_views'[h + 1].cursors) : i < j =>
                         /\ PosLeq(buffer_views'[h + 1].cursors[i].position,
                                   buffer_views'[h + 1].cursors[j].position)
                         /\ buffer_views'[h + 1].cursors[i]
                                # buffer_views'[h + 1].cursors[j]]_vars

\* a zero count returned early on a view that holds two cursors
ZeroCountOnTwoCursors ==
    /\ ~aborted
    /\ op.name = "zero_count_return"
    /\ \E h \in LiveHandles(buffer_views) : Len(buffer_views[h + 1].cursors) = 2

\* the number of positions of S before p in the linear order
Rank(S, p) == Cardinality({q \in S : PosLess(q, p)})

\* the position of S n steps after p, the last one when fewer remain
StepsIn(S, p, n) ==
    CHOOSE q \in S : Rank(S, q) = Min(Rank(S, p) + n, Cardinality(S) - 1)

\* the valid position n steps after p in the buffer's linear order
StepsLater(content, p, n) == StepsIn(AllPositions(content), p, n)

\* C10: for every buffer, start position and n >= 0, ColumnsForward(n) takes
\* each cursor's position to the position n steps later in the linear order
\* of the buffer's valid positions (the character boundaries of each line,
\* its end included, lines in order), and to the end of the last line when
\* fewer than n steps remain; a step is a character whatever its byte length.
ColumnsForwardSteps ==
    [][\A h \in Handles, k \in MovementKinds, n \in Counts :
          (/\ op'.name = "ColumnsForward"
           /\ Resolves(h)
           /\ \A c \in SeqRange(buffer_views[h + 1].cursors) :
                  c.position \in AllPositions(ViewBuffer(h).content)
           /\ MoveCursors(h, "ColumnsForward", n, k))
              => {c.position : c \in SeqRange(buffer_views'[h + 1].cursors)}
                     = {StepsLater(ViewBuffer(h).content, c.position, n) :
                            c \in SeqRange(buffer_views[h + 1].cursors)}]_vars

\* ColumnsForward took a cursor from the end of the first line over the empty
\* line to the start of the third
WrappedForward ==
    /\ op.name = "ColumnsForward"
    /\ \E h \in LiveHandles(buffer_views) :
           /\ Resolves(h)
           /\ Len(ViewBuffer(h).content) = 3
           /\ Cur(Pos(0, 3), Pos(2, 0)) \in SeqRange(buffer_views[h + 1].cursors)

\* the position of S n steps before p, the first one when fewer remain
StepsBack(S, p, n) ==
    CHOOSE q \in S : Rank(S, q) = Max(Rank(S, p) - n, 0)

\* the valid position n steps before p in the buffer's linear order
StepsEarlier(content, p, n) == StepsBack(AllPositions(content), p, n)

\* C11: for every buffer, start position and n >= 0, ColumnsBackward(n) takes
\* each cursor's position to the position n steps earlier in the linear order
\* of the buffer's valid positions (the step before column 0 of a line is the
\* end of the previous line), and to (0,0) when fewer than n steps remain.
ColumnsBackwardSteps ==
    [][\A h \in Handles, k \in MovementKinds, n \in Counts :
          (/\ op'.name \in {"ColumnsBackward", "zero_count_return"}
           /\ Resolves(h)
           /\ \A c \in SeqRange(buffer_views[h + 1].cursors) :
                  c.position \in AllPositions(ViewBuffer(h).content)
           /\ MoveCursors(h, "ColumnsBackward", n, k))
              => {c.position : c \in SeqRange(buffer_views'[h + 1].cursors)}
                     = {StepsEarlier(ViewBuffer(h).content, c.position, n) :
                            c \in SeqRange(buffer_views[h + 1].cursors)}]_vars

\* ColumnsBackward took a cursor from the start of the third line over the
\* empty line to the end of the first, behind a two-byte character
WrappedBackward ==
    /\ op.name = "ColumnsBackward"
    /\ \E h \in LiveHandles(buffer_views) :
           /\ Resolves(h)
           /\ Len(ViewBuffer(h).content) = 3
           /\ Cur(Pos(2, 0), Pos(0, 3)) \in SeqRange(buffer_views[h + 1].cursors)

\* the starts of the non-whitespace words of line l
WordStartsOf(content, l) ==
    {w.position : w \in SeqRange(NonWhitespace(LineWords(content, l)))}

\* the stops of a word movement: the start of every non-whitespace word and
\* the end of every line
WordStops(content) ==
    UNION {WordStartsOf(content, l) \cup {Pos(l, LineLen(content, l))} :
               l \in 0 .. LineCount(content) - 1}

\* the n-th (from 1) position of S in buffer order, last when S has fewer
NthOr(S, n, last) ==
    IF Cardinality(S) < n THEN last ELSE CHOOSE q \in S : Rank(S, q) = n - 1

\* the n-th stop after p, the end of the last line when fewer remain
NthStopAfter(content, p, n) ==
    NthOr({q \in WordStops(content) : PosLess(p, q)}, n, LastPosition(content))

\* p is inside or at the start of a non-whitespace word
InWord(content, p) ==
    /\ p \in AllPositions(content)
    /\ p.column_byte_index < LineLen(content, p.line_index)
    /\ KindOf(content[p.line_index + 1][p.column_byte_index + 1]) # "Whitespace"

\* p is on a whitespace byte
OnWhitespace(content, p) ==
    /\ p \in AllPositions(content)
    /\ p.column_byte_index < LineLen(content, p.line_index)
    /\ KindOf(content[p.line_index + 1][p.column_byte_index + 1]) = "Whitespace"

\* C12: for n >= 1 and cursors inside or at the start of a non-whitespace
\* word, WordsForward(n) lands on the n-th stop after the cursor, the stops
\* being the start of every non-whitespace word and the end of every line in
\* buffer order, and on the end of the last line when fewer than n remain.
WordsForwardStops ==
    [][\A h \in Handles, k \in MovementKinds, n \in Counts \ {0} :
          (/\ op'.name = "WordsForward"
           /\ Resolves(h)
           /\ \A c \in SeqRange(buffer_views[h + 1].cursors) :
                  InWord(ViewBuffer(h).content, c.position)
           /\ MoveCursors(h, "WordsForward", n, k))
              => {c.position : c \in SeqRange(buffer_views'[h + 1].cursors)}
                     = {NthStopAfter(ViewBuffer(h).content, c.position, n) :
                            c \in SeqRange(buffer_views[h + 1].cursors)}]_vars

\* WordsForward took a cursor from inside the third line's word over the end
\* of that line to the second word of the fourth line
WordsForwardCrossedLine ==
    /\ op.name = "WordsForward"
    /\ \E h \in LiveHandles(buffer_views) :
           /\ Resolves(h)
           /\ Len(ViewBuffer(h).content) = 5
           /\ Cur(Pos(2, 2), Pos(3, 2)) \in SeqRange(buffer_views[h + 1].cursors)

\* the starts of the non-whitespace words right of p on its line
WordsRightOf(content, p) ==
    {q \in WordStartsOf(content, p.line_index) :
        q.column_byte_index > p.column_byte_index}

\* C13: WordsForward(n), n >= 1, from a cursor on whitespace with at least n
\* non-whitespace words to its right on the line lands on the start of the
\* n-th of them (for n = 1: the first word right of the cursor).
WordsForwardFromWhitespace ==
    [][\A h \in Handles, k \in MovementKinds, n \in Counts \ {0} :
          (/\ op'.name = "WordsForward"
           /\ Resolves(h)
           /\ \A c \in SeqRange(buffer_views[h + 1].cursors) :
                  /\ OnWhitespace(ViewBuffer(h).content, c.position)
                  /\ Cardinality(WordsRightOf(ViewBuffer(h).content, c.position)) >= n
           /\ MoveCursors(h, "WordsForward", n, k))
              => {c.position : c \in SeqRange(buffer_views'[h + 1].cursors)}
                     = {NthOr(WordsRightOf(ViewBuffer(h).content, c.position), n,
                              c.position) :
                            c \in SeqRange(buffer_views[h + 1].cursors)}]_vars

\* the backward stops before p: the starts of non-whitespace words before p
\* and the ends of the lines above p's line
StopsBefore(content, p) ==
    {q \in WordStops(content) :
        /\ PosLess(q, p)
        /\ \/ q \in WordStartsOf(content, q.line_index)
           \/ q.line_index < p.line_index}

\* C14: WordsBackward(n), n >= 1, moves a cursor to (0,0) whenever fewer than
\* n backward stops lie before it; a cursor on line 0 is not left where it
\* was when n exceeds the number of word starts to its left.
WordsBackwardSaturates ==
    [][\A h \in Handles, k \in MovementKinds, n \in Counts \ {0} :
          (/\ op'.name = "WordsBackward"
           /\ Resolves(h)
           /\ \A c \in SeqRange(buffer_views[h + 1].cursors) :
                  /\ c.position \in AllPositions(ViewBuffer(h).content)
                  /\ Cardinality(StopsBefore(ViewBuffer(h).content, c.position)) < n
           /\ MoveCursors(h, "WordsBackward", n, k))
              => \A c \in SeqRange(buffer_views'[h + 1].cursors) :
                     c.position = Origin]_vars

\* C15: WordsBackward(1) from a cursor exactly at the start of a
\* non-whitespace word moves it to a strictly smaller position, and leaves it
\* in place only when it is at (0,0).
WordsBackwardFromWordStart ==
    [][\A h \in Handles, k \in MovementKinds :
          (/\ op'.name = "WordsBackward"
           /\ Resolves(h)
           /\ Len(buffer_views[h + 1].cursors) = 1
           /\ buffer_views[h + 1].cursors[1].position
                  \in WordStartsOf(ViewBuffer(h).content,
                                   buffer_views[h + 1].cursors[1].position.line_index)
           /\ MoveCursors(h, "WordsBackward", 1, k))
              => \/ PosLess(buffer_views'[h + 1].cursors[1].position,
                            buffer_views[h + 1].cursors[1].position)
                 \/ buffer_views[h + 1].cursors[1].position = Origin]_vars

\* the movements whose call is recorded under an operation's name
MovementsNamed(name) ==
    IF name = "zero_count_return"
    THEN {"ColumnsBackward", "WordsForward", "WordsBackward"}
    ELSE {name} \cap Movements

\* C16: after move_cursors(m, PositionAndAnchor) on a view whose buffer
\* exists every cursor of the view has its anchor at its position, for every
\* movement and count, a count of 0 and cursors holding a selection included.
AnchorFollowsPosition ==
    [][\A h \in Handles, m \in MovementsNamed(op'.name), n \in Counts :
          (/\ Resolves(h)
           /\ MoveCursors(h, m, n, "PositionAndAnchor"))
              => \A c \in SeqRange(buffer_views'[h + 1].cursors) :
                     c.anchor = c.position]_vars

\* C17: move_cursors(m, PositionOnly) changes no cursor's anchor: the anchors
\* after the call are the anchors before it, and cursors are only lost by
\* the merge of cursors that became identical.
PositionOnlyKeepsAnchors ==
    [][\A h \in Handles, m \in MovementsNamed(op'.name) :
          Resolves(h) =>
              \/ /\ ~aborted'
                 /\ {c.anchor : c \in SeqRange(buffer_views'[h + 1].cursors)}
                        = {c.anchor : c \in SeqRange(buffer_views[h + 1].cursors)}
                 /\ Len(buffer_views'[h + 1].cursors)
                        <= Len(buffer_views[h + 1].cursors)
              \/ \A n \in Counts : ~MoveCursors(h, m, n, "PositionOnly")]_vars

\* a movement left a selection behind: the position moved to the end of the
\* buffer and the anchor stayed at the origin
SelectionExtended ==
    /\ op.name \in Movements
    /\ \E h \in LiveHandles(buffer_views) :
           /\ Resolves(h)
           /\ LastPosition(ViewBuffer(h).content) # Origin
           /\ Cur(Origin, LastPosition(ViewBuffer(h).content))
                  \in SeqRange(buffer_views[h + 1].cursors)

\* C18: LinesForward(n) sets each cursor's line to min(line + n, last line)
\* and LinesBackward(n) to max(line - n, 0) for every n of the machine word,
\* the largest included, and never overflows, wraps or aborts.
LinesSaturate ==
    [][\A h \in Handles, k \in MovementKinds, n \in Counts :
          /\ (/\ op'.name \in {"LinesForward", "panic"}
              /\ Resolves(h)
              /\ \A c \in SeqRange(buffer_views[h + 1].cursors) :
                     c.position \in AllPositions(ViewBuffer(h).content)
              /\ MoveCursors(h, "LinesForward", n, k))
                 => /\ ~aborted'
                    /\ {c.position.line_index :
                            c \in SeqRange(buffer_views'[h + 1].cursors)}
                           = {Min(c.position.line_index + n,
                                  LineCount(ViewBuffer(h).content) - 1) :
                                  c \in SeqRange(buffer_views[h + 1].cursors)}
          /\ (/\ op'.name \in {"LinesBackward", "panic"}
              /\ Resolves(h)
              /\ \A c \in SeqRange(buffer_views[h + 1].cursors) :
                     c.position \in AllPositions(ViewBuffer(h).content)
              /\ MoveCursors(h, "LinesBackward", n, k))
                 => /\ ~aborted'
                    /\ {c.position.line_index :
                            c \in SeqRange(buffer_views'[h + 1].cursors)}
                           = {Max(c.position.line_index - n, 0) :
                                  c \in SeqRange(buffer_views[h + 1].cursors)}]_vars

LineMovements == {"LinesForward", "LinesBackward", "FirstLine", "LastLine"}

\* C19: after LinesForward, LinesBackward, FirstLine or LastLine every
\* cursor's column lies on a character boundary of the line it moved to,
\* also between lines whose characters have different byte widths.
LineMovesKeepBoundaries ==
    [][\A h \in Handles, k \in MovementKinds, n \in Counts, m \in LineMovements :
          (/\ op'.name = m
           /\ Resolves(h)
           /\ \A c \in SeqRange(buffer_views[h + 1].cursors) :
                  c.position \in AllPositions(ViewBuffer(h).content)
           /\ MoveCursors(h, m, n, k))
              => \A c \in SeqRange(buffer_views'[h + 1].cursors) :
                     IsBoundaryPosition(ViewBuffer(h).content, c.position)]_vars

\* C20: insert_text_at_cursor_positions with a text without a newline, on a
\* view with a single zero-width cursor at (l, c), leaves that cursor
\* collapsed at (l, c + the byte length of the text): the cursor advances by
\* bytes, not by characters.
InsertAdvancesByBytes ==
    [][\A h \in Handles, text \in Texts :
          (/\ op'.name = "insert_text_at_cursor_positions"
           /\ Resolves(h)
           /\ NL \notin SeqRange(text)
           /\ Len(buffer_views[h + 1].cursors) = 1
           /\ buffer_views[h + 1].cursors[1].anchor
                  = buffer_views[h + 1].cursors[1].position
           /\ InsertTextAtCursorPositions(h, text))
              => buffer_views'[h + 1].cursors
                     = <<Collapsed(Pos(buffer_views[h + 1].cursors[1].position.line_index,
                                       buffer_views[h + 1].cursors[1].position.column_byte_index
                                           + Len(text)))>>]_vars

\* a two-byte character was inserted at the single cursor of a view on the
\* empty second line, and the cursor stands two bytes further
TwoByteCharInserted ==
    /\ op.name = "insert_text_at_cursor_positions"
    /\ \E h \in LiveHandles(buffer_views) :
           /\ Resolves(h)
           /\ ViewBuffer(h).content = << <<"a">>, <<"c3", "a7">> >>
           /\ ViewBuffer(h).groups
                  = << <<Edit("Insert", Rng(Pos(1, 0), Pos(1, 2)), <<"c3", "a7">>, 0)>> >>
           /\ buffer_views[h + 1].cursors = <<Collapsed(Pos(1, 2))>>

----------------------------------------------------------------------------
(* Batch edits, seen on the text as one string of bytes *)

\* the byte offset of position p in the lines joined by newlines
RECURSIVE OffsetOf(_, _)
OffsetOf(content, p) ==
    IF p.line_index = 0 THEN p.column_byte_index
    ELSE Len(content[1]) + 1
         + OffsetOf(Tail(content), Pos(p.line_index - 1, p.column_byte_index))

\* text with t inserted at byte offset o
FlatInsert(text, o, t) == SubSeq(text, 1, o) \o t \o SubSeq(text, o + 1, Len(text))

RECURSIVE WithCopies(_, _, _)
\* text with one copy of t at each of the offsets
WithCopies(text, offsets, t) ==
    IF offsets = {} THEN text
    ELSE LET o == CHOOSE x \in offsets : \A y \in offsets : y <= x
         IN  WithCopies(FlatInsert(text, o, t), offsets \ {o}, t)

DistinctPositions(cursors) ==
    \A i \in 1 .. Len(cursors) - 1 : PosLess(cursors[i].position, cursors[i + 1].position)

\* the last k edits the history of b holds, oldest first
LastEdits(b, k) ==
    LET g == b.groups[b.index]
    IN  SubSeq(g, Len(g) - k + 1, Len(g))

\* the step put one copy of t at each cursor of view h, last cursor first,
\* and left cursor i right after the i-th copy
InsertedAtEach(h, t) ==
    LET cursors == buffer_views[h + 1].cursors
        k == Len(cursors)
        old == ViewBuffer(h).content
        bh == buffer_views[h + 1].buffer_handle
        new == buffers'[bh].content
        after == buffer_views'[h + 1].cursors
    IN  /\ JoinLines(new) =
               WithCopies(JoinLines(old),
                          {OffsetOf(old, cursors[i].position) : i \in 1 .. k}, t)
        /\ Len(after) = k
        /\ \A i \in 1 .. k :
               /\ IsValidPosition(new, after[i].position)
               /\ OffsetOf(new, after[i].position) =
                      OffsetOf(old, cursors[i].position) + i * Len(t)
               /\ (cursors[i].anchor = cursors[i].position
                       => after[i].anchor = after[i].position)
        /\ buffers'[bh].index > 0
        /\ Len(buffers'[bh].groups[buffers'[bh].index]) >= k
        /\ \A j \in 1 .. k :
               LET e == LastEdits(buffers'[bh], k)[j]
               IN  /\ e.kind = "Insert"
                   /\ e.range.from = cursors[k + 1 - j].position
                   /\ e.cursor_index = k - j

\* C21: with cursors at distinct positions p1 < ... < pk,
\* insert_text_at_cursor_positions(T) inserts from pk down to p1, the text
\* afterwards is the original with one copy of T at each original pi, and
\* cursor i ends immediately after its own copy, also when cursors share a
\* line and T contains newlines.
InsertAtEveryCursor ==
    [][\A h \in Handles :
          (/\ op'.name = "insert_text_at_cursor_positions"
           /\ Resolves(h)
           /\ DistinctPositions(buffer_views[h + 1].cursors))
              => \A t \in Texts :
                     InsertTextAtCursorPositions(h, t) => InsertedAtEach(h, t)]_vars

\* two cursors on the line "aa" each got a copy of a text with a newline:
\* the lines are "a.", ".a.", "." and the cursors follow their copies
TwoCopiesOnOneLine ==
    /\ op.name = "insert_text_at_cursor_positions"
    /\ buffers[0].content = << <<"a", ".">>, <<".", "a", ".">>, <<".">> >>
    /\ buffer_views[1].cursors = <<Collapsed(Pos(1, 1)), Collapsed(Pos(2, 1))>>

----------------------------------------------------------------------------
(* Insert and delete as inverses *)

\* the registry and the buffer after insert_text_at_position(h, p, t, ci) and
\* then delete_in_range(h, the inserted range, ci)
InsertThenDelete(h, p, t, ci) ==
    LET bh == buffer_views[h + 1].buffer_handle
        r == InsertedRange(p, t)
        b1 == BufferInsertText(ViewBuffer(h), p, t, ci)
        v1 == FixBufferCursors(buffer_views, bh, "insert", <<r>>)
    IN  [buffer |-> BufferDeleteRange(b1, r, ci),
         views |-> FixBufferCursors(v1, bh, "delete", <<r>>),
         ok |-> CanInsertAt(ViewBuffer(h), p) /\ CanDelete(b1, r)]

\* the text and every cursor of every view are those before the two calls
RestoredBy(h, after) ==
    /\ after.ok
    /\ after.buffer.content = ViewBuffer(h).content
    /\ after.views = buffer_views

\* C22: insert_text_at_position(p, T) followed by delete_in_range of the
\* range the insertion occupies restores the text and every cursor, anchor
\* and position, of every view on that buffer.
InsertDeleteRoundTrip ==
    \A h \in Handles : (~aborted /\ Resolves(h)) =>
        \A t \in Texts, ci \in CursorIndices, p \in PositionsOf(h) :
            RestoredBy(h, InsertThenDelete(h, p, t, ci))

\* ".", newline, "." was inserted at the end of line 0 of "a", "" and its
\* range deleted by the next call: the text and the cursors, one of them a
\* selection across the insertion point, are the initial ones
InsertedRangeDeleted ==
    /\ op.name = "delete_in_range"
    /\ recorded = 2
    /\ buffers[0].content = << <<"a">>, <<>> >>
    /\ buffers[0].groups =
           << <<Edit("Insert", Rng(Pos(0, 1), Pos(1, 1)), <<".", NL, ".">>, 0),
                Edit("Delete", Rng(Pos(0, 1), Pos(1, 1)), <<".", NL, ".">>, 0)>> >>
    /\ buffer_views[1].cursors = <<Collapsed(Origin), Cur(Pos(0, 1), Pos(1, 0))>>
    /\ buffer_views[2].cursors = <<Collapsed(Origin), Collapsed(Pos(1, 0))>>

----------------------------------------------------------------------------
(* Completions, seen on the text as one string of bytes *)

\* the column at which the identifier bytes right before column col begin
\* (col itself when the byte before it is not an identifier byte)
IdentStart(line, col) ==
    CHOOSE s \in 0 .. col :
        /\ \A j \in s + 1 .. col : IsIdentifierByte(line[j])
        /\ (s > 0 => ~IsIdentifierByte(line[s]))

\* the identifier bytes right before the cursor: their first column
PrefixStart(content, c) ==
    IdentStart(content[c.position.line_index + 1], c.position.column_byte_index)

AfterIdentifier(content, c) == PrefixStart(content, c) < c.position.column_byte_index

\* every cursor has identifier bytes before it that no other cursor shares
OwnPrefixes(content, cursors) ==
    /\ \A i \in 1 .. Len(cursors) : AfterIdentifier(content, cursors[i])
    /\ \A i \in 1 .. Len(cursors) - 1 :
           PosLeq(cursors[i].position,
                  Pos(cursors[i + 1].position.line_index,
                      PrefixStart(content, cursors[i + 1])))

RECURSIVE PrefixesReplaced(_, _, _, _, _)
\* text with the prefixes of cursors 1 .. k replaced by completion
PrefixesReplaced(text, content, cursors, k, completion) ==
    IF k = 0 THEN text
    ELSE LET to == OffsetOf(content, cursors[k].position)
             from == to - (cursors[k].position.column_byte_index
                               - PrefixStart(content, cursors[k]))
         IN  PrefixesReplaced(SubSeq(text, 1, from) \o completion
                                  \o SubSeq(text, to + 1, Len(text)),
                              content, cursors, k - 1, completion)

RECURSIVE EndOfCompletion(_, _, _, _)
\* the byte offset right after the completion of cursor k in the new text
EndOfCompletion(content, cursors, k, completion) ==
    LET w == cursors[k].position.column_byte_index - PrefixStart(content, cursors[k])
        before == IF k = 1 THEN 0
                  ELSE EndOfCompletion(content, cursors, k - 1, completion)
                           - OffsetOf(content, cursors[k - 1].position)
    IN  OffsetOf(content, cursors[k].position) - w + Len(completion) + before

\* the step replaced the prefix of every cursor of view h and left every
\* cursor collapsed right after its completion
CompletedAtEach(h, completion) ==
    LET cursors == buffer_views[h + 1].cursors
        old == ViewBuffer(h).content
        new == buffers'[buffer_views[h + 1].buffer_handle].content
        after == buffer_views'[h + 1].cursors
    IN  /\ JoinLines(new) =
               PrefixesReplaced(JoinLines(old), old, cursors, Len(cursors), completion)
        /\ Len(after) = Len(cursors)
        /\ \A i \in 1 .. Len(cursors) :
               /\ after[i].anchor = after[i].position
               /\ IsValidPosition(new, after[i].position)
               /\ OffsetOf(new, after[i].position) =
                      EndOfCompletion(old, cursors, i, completion)

\* C23: for every cursor immediately preceded by a run of identifier
\* characters w, apply_completion(c) replaces w by c and leaves the cursor's
\* anchor and position immediately after c, whether c is longer than, as
\* long as or shorter than w, and for each cursor of a view with several.
CompletionReplacesPrefix ==
    [][\A h \in Handles :
          (/\ op'.name = "apply_completion"
           /\ Resolves(h)
           /\ OwnPrefixes(ViewBuffer(h).content, buffer_views[h + 1].cursors))
              => \A c \in Completions :
                     ApplyCompletion(h, c) => CompletedAtEach(h, c)]_vars

\* no cursor has an identifier byte right before it
NoPrefixes(content, cursors) ==
    \A i \in 1 .. Len(cursors) : ~AfterIdentifier(content, cursors[i])

\* C24: when the character before a cursor is not part of an identifier,
\* apply_completion(c) deletes nothing and inserts c exactly at the cursor:
\* all text that preceded the cursor still precedes c, in its order, and the
\* cursor ends immediately after c.
CompletionInsertsAtCursor ==
    [][\A h \in Handles :
          (/\ op'.name = "apply_completion"
           /\ Resolves(h)
           /\ DistinctPositions(buffer_views[h + 1].cursors)
           /\ NoPrefixes(ViewBuffer(h).content, buffer_views[h + 1].cursors))
              => \A c \in Completions :
                     ApplyCompletion(h, c) => InsertedAtEach(h, c)]_vars

----------------------------------------------------------------------------
(* Undo and redo *)

\* C25: undo or redo on a buffer whose history yields no edit leaves the
\* cursors of the issuing view and of every other view exactly as they were;
\* the issuing view's cursors are rebuilt only when at least one edit was
\* replayed.
EmptyReplayKeepsCursors ==
    [][\A h \in Handles : (op'.name \in {"undo", "redo"} /\ Resolves(h)) =>
          /\ (Undo(h) /\ UndoEdits(ViewBuffer(h)) = <<>>) => buffer_views' = buffer_views
          /\ (Redo(h) /\ RedoEdits(ViewBuffer(h)) = <<>>) => buffer_views' = buffer_views]_vars

\* undo was issued on a buffer without history through a view that holds two
\* cursors, one of them a selection, and the view still holds them
NothingToUndo ==
    /\ op.name = "undo"
    /\ \E h \in LiveHandles(buffer_views) :
           /\ Resolves(h)
           /\ ViewBuffer(h).groups = <<>>
           /\ buffer_views[h + 1].cursors =
                  <<Cur(Origin, Pos(0, 1)),
                    Cur(Pos(0, 1), LastPosition(ViewBuffer(h).content))>>

----------------------------------------------------------------------------
(* New views *)

Creators == {"add", "buffer_view_handle_from_buffer_handle", "buffer_view_handle_from_path"}

\* the step put a view into a slot that held none
Created(h) ==
    /\ op'.name \in Creators
    /\ op'.handle = h
    /\ ~IsLive(buffer_views, h)
    /\ IsLive(buffer_views', h)

\* C26: a newly created BufferView added to the collection has a main cursor,
\* and its anchor and position are both (0,0): main_cursor() is defined on a
\* view nothing has touched yet.
NewViewHasMainCursor ==
    [][\A h \in Handles : Created(h) =>
          /\ Len(buffer_views'[h + 1].cursors) = 1
          /\ buffer_views'[h + 1].cursors[1].anchor = Pos(0, 0)
          /\ buffer_views'[h + 1].cursors[1].position = Pos(0, 0)]_vars

\* a file was opened into a new buffer and a new view: the view's only
\* cursor is at the origin
FreshViewOfFile ==
    /\ op.name = "buffer_view_handle_from_path"
    /\ IsLive(buffer_views, op.handle)
    /\ Resolves(op.handle)
    /\ ViewBuffer(op.handle).groups = <<>>
    /\ buffer_views[op.handle + 1].cursors = <<Cur(Origin, Origin)>>

----------------------------------------------------------------------------
(* Command lines *)

RECURSIVE UnmatchedQuoteFrom(_, _)
\* the offset of the first quote at or after offset i that opens a quoted
\* argument and has no closing quote of its kind after it, -1 when every
\* quote is closed
UnmatchedQuoteFrom(text, i) ==
    IF \A k \in i + 1 .. Len(text) : text[k] \notin Quotes THEN 0 - 1
    ELSE LET q == CHOOSE k \in i + 1 .. Len(text) :
                      text[k] \in Quotes /\ \A j \in i + 1 .. k - 1 : text[j] \notin Quotes
         IN  IF \A k \in q + 1 .. Len(text) : text[k] # text[q] THEN q - 1
             ELSE UnmatchedQuoteFrom(text,
                      CHOOSE k \in q + 1 .. Len(text) :
                          text[k] = text[q] /\ \A j \in q + 1 .. k - 1 : text[j] # text[q])

\* C27: whenever command parsing fails with UnterminatedArgument, the index
\* reported is the byte index of the unmatched opening quote, for a
\* positional argument and for an option value (-flag='...) alike.
UnterminatedIndexIsQuote ==
    command.result.error = "UnterminatedArgument"
        => command.result.index = UnmatchedQuoteFrom(command.text, 0)

----------------------------------------------------------------------------
(* The cursors undo and redo leave in the issuing view *)

\* where a replayed edit happened: the end of an inserted range, the start
\* of a deleted one
PointOf(e) == IF e.kind = "Insert" THEN e.range.to ELSE e.range.from

\* position p after a later edit e: text inserted or deleted before p moves
\* it, text inserted after it does not; text inserted exactly at p moves it
\* when ties push
ShiftedBy(p, e, push) ==
    IF e.kind = "Insert"
    THEN IF PosLess(e.range.from, p) \/ (push /\ e.range.from = p)
         THEN PositionInsert(p, e.range) ELSE p
    ELSE PositionDelete(p, e.range)

RECURSIVE LocatedAfter(_, _, _, _)
\* position p as located after edits[k], edits[k + 1], ...
LocatedAfter(p, edits, k, push) ==
    IF k > Len(edits) THEN p
    ELSE LocatedAfter(ShiftedBy(p, edits[k], push), edits, k + 1, push)

\* the last edit replayed for cursor index i
LastFor(edits, i) ==
    CHOOSE k \in 1 .. Len(edits) :
        /\ edits[k].cursor_index = i
        /\ \A j \in k + 1 .. Len(edits) : edits[j].cursor_index # i

\* the step left view h with zero-width cursors only, one of them where the
\* last edit of each cursor index lies once all edits are replayed (with
\* either reading of an insertion exactly at that point)
RebuiltAt(h, edits) ==
    /\ \A c \in SeqRange(buffer_views'[h + 1].cursors) : c.anchor = c.position
    /\ \A i \in {edits[k].cursor_index : k \in 1 .. Len(edits)} :
           \E push \in BOOLEAN :
               Collapsed(LocatedAfter(PointOf(edits[LastFor(edits, i)]), edits,
                                      LastFor(edits, i) + 1, push))
                   \in SeqRange(buffer_views'[h + 1].cursors)

\* C28: after an undo or redo that replays a non-empty sequence of edits,
\* every cursor of the issuing view is zero-width and the cursor for cursor
\* index i sits at the point of the last replayed edit with index i (the end
\* of the range of an Insert, the start of the range of a Delete) as located
\* in the buffer after all replayed edits, also when edits of other cursor
\* indices that shift it are replayed afterwards.
ReplayCollapsesOntoEdits ==
    [][\A h \in Handles : (op'.name \in {"undo", "redo"} /\ Resolves(h)) =>
          /\ (Undo(h) /\ UndoEdits(ViewBuffer(h)) # <<>>)
                 => RebuiltAt(h, UndoEdits(ViewBuffer(h)))
          /\ (Redo(h) /\ RedoEdits(ViewBuffer(h)) # <<>>)
                 => RebuiltAt(h, RedoEdits(ViewBuffer(h)))]_vars

----------------------------------------------------------------------------
(* Deleting the selections *)

\* the byte offsets, from 0, that the ranges of the cursors cover
Covered(content, cursors) ==
    UNION {OffsetOf(content, CursorAsRange(cursors[i]).from)
               .. OffsetOf(content, CursorAsRange(cursors[i]).to) - 1 :
           i \in 1 .. Len(cursors)}

RECURSIVE Without(_, _, _)
\* the bytes of text from offset k on whose offsets are not in S
Without(text, S, k) ==
    IF k >= Len(text) THEN <<>>
    ELSE (IF k \in S THEN <<>> ELSE <<text[k + 1]>>) \o Without(text, S, k + 1)

\* the step removed exactly the bytes the cursors of view h covered and left
\* a zero-width cursor where each range started
UnionDeleted(h) ==
    LET cursors == buffer_views[h + 1].cursors
        old == ViewBuffer(h).content
        new == buffers'[buffer_views[h + 1].buffer_handle].content
        gone == Covered(old, cursors)
        after == buffer_views'[h + 1].cursors
    IN  /\ JoinLines(new) = Without(JoinLines(old), gone, 0)
        /\ \A c \in SeqRange(after) :
               c.anchor = c.position /\ IsValidPosition(new, c.position)
        /\ {OffsetOf(new, c.position) : c \in SeqRange(after)} =
               {OffsetOf(old, CursorAsRange(cursors[i]).from)
                    - Cardinality({o \in gone :
                          o < OffsetOf(old, CursorAsRange(cursors[i]).from)}) :
                i \in 1 .. Len(cursors)}

----------------------------------------------------------------------------
(* Closing views *)

\* the buffers the views left in the registry reference
ReferencedBy(views) ==
    {views[i].buffer_handle : i \in {j \in 1 .. Len(views) : views[j] # NoView}}

\* the step removed the views that satisfy pred and no other, and the
\* buffers without a view left and no other
RemovedExactly(pred) ==
    /\ Len(buffer_views') = Len(buffer_views)
    /\ \A i \in 1 .. Len(buffer_views) :
           IF buffer_views[i] # NoView /\ ~Matches(pred, buffer_views[i])
           THEN buffer_views'[i] = buffer_views[i]
           ELSE buffer_views'[i] = NoView
    /\ \A b \in BufferHandles :
           IF b \in ReferencedBy(buffer_views')
           THEN buffers'[b] = buffers[b]
           ELSE ~buffers'[b].live
    /\ \A h \in LiveHandles(buffer_views') :
           (IsLive(buffer_views, h) /\ Resolves(h)) =>
               /\ buffer_views'[h + 1].buffer_handle \in BufferHandles
               /\ buffers'[buffer_views'[h + 1].buffer_handle].live

\* C30: remove_where removes exactly the views that satisfy the predicate and
\* then exactly the buffers that no remaining view references; every
\* remaining view keeps its handle and its cursors and still references a
\* live buffer.
RemoveWhereIsExact ==
    [][op'.name = "remove_where" =>
          \A pred \in Predicates : RemoveWhere(pred) => RemovedExactly(pred)]_vars

\* the view in slot 0 and its buffer are gone; the view in slot 1 still has
\* its moved cursor and its buffer, which was opened after the removed one
ViewAndBufferRemoved ==
    /\ op.name = "remove_where"
    /\ Len(buffer_views) = 2
    /\ buffer_views[1] = NoView
    /\ ~buffers[0].live
    /\ IsLive(buffer_views, 1)
    /\ buffer_views[2].buffer_handle = 1
    /\ buffers[1].live
    /\ buffer_views[2].cursors = <<Collapsed(Pos(0, 1))>>

----------------------------------------------------------------------------
(* One cursor per replayed cursor index *)

\* the cursor indices the edits carry
IndicesOf(edits) == {edits[k].cursor_index : k \in 1 .. Len(edits)}

\* the step left view h with zero-width cursors at exactly the points that
\* the replayed edits recorded, one point per cursor index among them
OnePerIndex(h, edits) ==
    /\ \A c \in SeqRange(buffer_views'[h + 1].cursors) : c.anchor = c.position
    /\ {c.position : c \in SeqRange(buffer_views'[h + 1].cursors)}
           = {PointOf(edits[LastFor(edits, i)]) : i \in IndicesOf(edits)}

\* C31: after an undo or redo that replays edits, the issuing view holds one
\* cursor per distinct cursor_index among the replayed edits (identical ones
\* merged) and no cursor for an index that no replayed edit carries, so none
\* at (0,0) when only a higher index was replayed.
OneCursorPerReplayedIndex ==
    [][\A h \in Handles : (op'.name \in {"undo", "redo"} /\ Resolves(h)) =>
          /\ (Undo(h) /\ UndoEdits(ViewBuffer(h)) # <<>>)
                 => OnePerIndex(h, UndoEdits(ViewBuffer(h)))
          /\ (Redo(h) /\ RedoEdits(ViewBuffer(h)) # <<>>)
                 => OnePerIndex(h, RedoEdits(ViewBuffer(h)))]_vars

----------------------------------------------------------------------------
(* Monotonicity of the counted column and word movements *)

BackwardMovements == {"ColumnsBackward", "WordsBackward"}

\* where movement m with count n takes the position p
Reached(content, p, m, n) ==
    IF ReturnsEarly(m, n) THEN p ELSE MovePosition(content, p, m, n)

NotAfter(p, q) == p = q \/ PosLess(p, q)

\* the position reached with count n lies on the movement's side of the
\* start and of the positions reached with the smaller counts
MonotoneAt(content, p, m, n) ==
    LET q == Reached(content, p, m, n)
    IN  IF m \in BackwardMovements
        THEN /\ NotAfter(q, p)
             /\ \A n2 \in Counts : n2 < n => NotAfter(q, Reached(content, p, m, n2))
        ELSE /\ NotAfter(p, q)
             /\ \A n2 \in Counts : n2 < n => NotAfter(Reached(content, p, m, n2), q)

\* C32: for a fixed buffer and start position the position reached by
\* ColumnsBackward(n) and by WordsBackward(n) is non-increasing in n and never
\* after the start, the position reached by ColumnsForward(n) and by
\* WordsForward(n) is non-decreasing in n and never before the start.
MovementsMonotoneInCount ==
    [][\A h \in Handles, k \in MovementKinds, n \in Counts,
          m \in {"ColumnsForward", "ColumnsBackward", "WordsForward", "WordsBackward"} :
          (/\ op'.name = m
           /\ Resolves(h)
           /\ \A c \in SeqRange(buffer_views[h + 1].cursors) :
                  c.position \in AllPositions(ViewBuffer(h).content)
           /\ MoveCursors(h, m, n, k))
              => \A c \in SeqRange(buffer_views[h + 1].cursors) :
                     /\ Reached(ViewBuffer(h).content, c.position, m, n)
                            \in {d.position : d \in SeqRange(buffer_views'[h + 1].cursors)}
                     /\ MonotoneAt(ViewBuffer(h).content, c.position, m, n)]_vars

----------------------------------------------------------------------------
(* buffer_view_handle_from_buffer_handle is idempotent *)

\* the live views of views that client c has of buffer b
PairViews(views, c, b) ==
    {h \in LiveHandles(views) :
        views[h + 1].buffer_handle = b /\ views[h + 1].target_client = c}

\* at most one live view per (client, buffer) pair
OnePerPair(views) ==
    \A c \in Clients, b \in BufferHandles : Cardinality(PairViews(views, c, b)) <= 1

\* C33: buffer_view_handle_from_buffer_handle(client, buffer) returns a live
\* view of that client and buffer; when such a view is live it is returned
\* and no view is added, so a second call returns the same handle; a
\* registry with at most one live view per pair keeps at most one per pair,
\* and another client of the same buffer gets a view of its own.
HandleFromBufferIsIdempotent ==
    [][\A c \in Clients, b \in BufferHandles :
          (/\ op'.name = "buffer_view_handle_from_buffer_handle"
           /\ BufferViewHandleFromBufferHandle(c, b))
              => /\ op'.handle \in PairViews(buffer_views', c, b)
                 /\ \A k \in PairViews(buffer_views', c, b) : op'.handle <= k
                 /\ PairViews(buffer_views, c, b) # {}
                        => /\ buffer_views' = buffer_views
                           /\ op'.handle \in PairViews(buffer_views, c, b)
                 /\ LiveHandles(buffer_views') \ LiveHandles(buffer_views)
                        \subseteq {op'.handle}
                 /\ \A h \in LiveHandles(buffer_views) :
                        buffer_views'[h + 1] = buffer_views[h + 1]
                 /\ OnePerPair(buffer_views) => OnePerPair(buffer_views')]_vars

\* the call returned the view that was live already: a lower slot is vacant,
\* which a new view would have taken
ExistingViewReturned ==
    /\ ~aborted
    /\ op.name = "buffer_view_handle_from_buffer_handle"
    /\ IsLive(buffer_views, op.handle)
    /\ \E i \in VacantSlots(buffer_views) : i - 1 < op.handle

----------------------------------------------------------------------------
(* Editor events are dispatched before execute_keys returns *)

\* C34: when execute_keys returns, every editor event that Mode::on_keys
\* enqueued during the call has been dispatched by trigger_event_handlers
\* and none is left in the queue, whatever on_keys returned.
EventsDispatchedOnReturn ==
    op.name \in {"execute_keys", "on_client_event"}
        => /\ editor.events = <<>>
           /\ editor.dispatched = editor.enqueued

----------------------------------------------------------------------------
(* BufferedKeys::parse *)

\* C35: BufferedKeys::parse leaves the buffered keys as they were when an
\* item of the input fails to parse, the keys parsed before it are removed
\* again; when every item parses, the keys are appended and the iterator
\* returned starts at the previous length.
ParseIsAllOrNothing ==
    [][\A items \in ParsedStrings :
          (op'.name = "parse_keys" /\ ParseKeys(items))
              => IF \E i \in 1 .. Len(items) : items[i] = KeyError
                 THEN /\ editor'.buffered_keys = editor.buffered_keys
                      /\ ~editor'.parsed.ok
                 ELSE /\ editor'.buffered_keys = editor.buffered_keys \o items
                      /\ editor'.parsed.ok
                      /\ editor'.parsed.index = Len(editor.buffered_keys)]_vars

\* a parse failed while keys of an unfinished sequence were buffered, and
\* they are still there
FailedParseKeptKeys ==
    /\ op.name = "parse_keys"
    /\ ~editor.parsed.ok
    /\ editor.buffered_keys # <<>>

----------------------------------------------------------------------------
(* One holder per LSP client entry *)

\* every guard is the only one of its entry, which is Reserved; a Reserved
\* entry has a guard; no Occupied entry holds a client that a guard holds
HoldersOk(l) ==
    /\ \A g1 \in l.guards, g2 \in l.guards : g1.handle = g2.handle => g1 = g2
    /\ \A g \in l.guards :
           /\ g.handle < Len(l.entries)
           /\ l.entries[g.handle + 1] = Reserved
    /\ \A i \in 1 .. Len(l.entries) :
           /\ l.entries[i].state = "Reserved" => \E g \in l.guards : g.handle = i - 1
           /\ l.entries[i].state = "Occupied"
                  => \A g \in l.guards : g.client # l.entries[i].client

\* C36: each client entry has at most one holder: acquire or find_client on
\* an Occupied entry turns it Reserved and returns its client; acquire,
\* get_mut and find_client return None for that entry until the release,
\* which turns the entry back to Occupied with the same client.
OneHolderPerEntry ==
    [][/\ HoldersOk(lsp')
       /\ \A h \in EntryHandles :
              /\ (op'.name = "acquire" /\ Acquire(h)) =>
                     IF lsp.entries[h + 1].state = "Occupied"
                     THEN /\ lsp'.entries[h + 1] = Reserved
                          /\ lsp'.result = lsp.entries[h + 1].client
                          /\ lsp'.guards = lsp.guards
                                 \cup {[handle |-> h, client |-> lsp.entries[h + 1].client]}
                     ELSE /\ lsp'.result = NoClient
                          /\ lsp'.entries = lsp.entries
                          /\ lsp'.guards = lsp.guards
              /\ (op'.name = "get_mut" /\ GetMut(h)) =>
                     /\ lsp'.entries = lsp.entries
                     /\ lsp.entries[h + 1].state # "Occupied" => lsp'.result = NoClient
       /\ \A satisfying \in SUBSET (0 .. MaxStarts - 1) :
              (op'.name = "find_client" /\ FindClient(satisfying)) =>
                  \/ /\ lsp'.result = NoClient
                     /\ lsp'.entries = lsp.entries
                  \/ /\ lsp'.result \in satisfying
                     /\ \E h \in EntryHandles :
                            /\ lsp.entries[h + 1] = Occupied(lsp'.result)
                            /\ lsp'.entries = [lsp.entries EXCEPT ![h + 1] = Reserved]
                            /\ lsp'.guards = lsp.guards
                                   \cup {[handle |-> h, client |-> lsp'.result]}
       /\ \A g \in lsp.guards :
              (op'.name = "release" /\ Release(g)) =>
                  /\ lsp'.entries = [lsp.entries EXCEPT ![g.handle + 1] = Occupied(g.client)]
                  /\ lsp'.guards = lsp.guards \ {g}]_vars

\* a client that is held was asked for again and not handed out
HeldClientRefused ==
    /\ op.name \in {"acquire", "get_mut"}
    /\ lsp.result = NoClient
    /\ \E g \in lsp.guards : g.handle = op.handle
    /\ lsp.entries[op.handle + 1] = Reserved

----------------------------------------------------------------------------
(* stop vacates the entry *)

\* entry h is Vacant and no recipe runs the client of handle h
Stopped(l, h) ==
    /\ l.entries[h + 1] = Vacant
    /\ \A i \in 1 .. Len(l.recipes) : l.recipes[i].running_client # h

\* C37: after stop(handle) for a client that was started the entry is Vacant
\* and no recipe has running_client equal to the handle, also when stop is
\* called while the client is acquired during on_process_output and the
\* guard is released afterwards; a Vacant entry stays Vacant until a start
\* takes it.
StopVacatesEntry ==
    [][\A h \in EntryHandles :
          /\ (op'.name = "stop" /\ Stop(h) /\ lsp.entries[h + 1] # Vacant)
                 => Stopped(lsp', h)
          /\ \A h0 \in EntryHandles :
                 (/\ op'.name = "on_process_output"
                  /\ lsp.entries[h0 + 1].state = "Occupied"
                  /\ lsp.entries[h + 1] # Vacant
                  /\ OnProcessOutput(h0, [kind |-> "stop", handle |-> h]))
                     => Stopped(lsp', h)
          /\ (lsp.entries[h + 1] = Vacant /\ lsp'.entries[h + 1] # Vacant)
                 => op'.name \in {"start", "on_editor_events", "on_process_output"}]_vars

----------------------------------------------------------------------------
(* The client writes the payloads of the display messages *)

RECURSIVE CompletePayloads(_)
\* the payload bytes of the complete length-prefixed messages at the start
\* of bytes, in order
CompletePayloads(bytes) ==
    IF Len(bytes) < 4 \/ Len(bytes) < FromLeBytes(SubSeq(bytes, 1, 4)) + 4 THEN <<>>
    ELSE SubSeq(bytes, 5, FromLeBytes(SubSeq(bytes, 1, 4)) + 4)
             \o CompletePayloads(SubSeq(bytes, FromLeBytes(SubSeq(bytes, 1, 4)) + 5,
                                        Len(bytes)))

IsShown(b) == b # ResetStyleCode[1]

\* what the terminal was given, the style resets aside
Shown(bytes) == SelectSeq(bytes, IsShown)

\* C38: whenever on_events has returned, the client has written to its
\* terminal exactly the payload bytes of the complete length-prefixed
\* messages received so far, in order, however the stream was split or
\* joined into Message events: no length byte is written and no complete
\* payload is dropped or held back.
PayloadsWrittenExactly ==
    op.name = "on_events"
        => Shown(client_application.stdout)
               = CompletePayloads(client_application.received)

----------------------------------------------------------------------------
(* When the server stops *)

\* the clients whose write failed in the step: those of failed that are
\* clients when the display is written
FailedWrites(event, failed) ==
    failed \cap AfterMatch(server, event).sv.clients

\* C39: Server::on_event returns false exactly when a ConnectionClose leaves
\* no connected client, when a failed write to a connection leaves none, or
\* when the editor answers QuitAll; Quit closes the connection of the sending
\* client only, and every connection whose write failed is closed and its
\* client removed before on_event returns.
ServerStopsExactlyWhen ==
    [][\A event \in ServerEvents, failed \in SUBSET Connections :
          (op'.name = event.kind /\ op'.handle = event.index /\ OnEvent(event, failed)) =>
              /\ ~server'.result <=>
                     \/ /\ event.kind = "ConnectionClose"
                        /\ server.clients \ {event.index} = {}
                     \/ /\ event.kind = "ConnectionMessage"
                        /\ event.editor_loop = "QuitAll"
                     \/ /\ ~(event.kind = "ConnectionClose"
                             /\ server.clients \ {event.index} = {})
                        /\ ~(event.kind = "ConnectionMessage"
                             /\ event.editor_loop = "QuitAll")
                        /\ FailedWrites(event, failed) # {}
                        /\ server'.clients = {}
              /\ (event.kind = "ConnectionMessage" /\ event.editor_loop = "Quit")
                     => /\ event.index \in server'.closed
                        /\ server'.closed \subseteq {event.index} \cup FailedWrites(event, failed)
              /\ (event.kind # "ConnectionMessage" \/ event.editor_loop # "Quit")
                     => server'.closed \subseteq FailedWrites(event, failed)
              /\ server'.result \/ server'.clients = {}
                     => /\ FailedWrites(event, failed) \subseteq server'.closed
                        /\ FailedWrites(event, failed) \cap server'.clients = {}
                        /\ FailedWrites(event, failed) \cap server'.open = {}]_vars

\* a client quit and only its connection was closed while another client
\* stays connected and the server runs on
OnlySenderClosed ==
    /\ op.name = "ConnectionMessage"
    /\ server.result
    /\ server.closed = {op.handle}
    /\ server.clients \ {op.handle} # {}

============================================================================
